---- MODULE Spec2Model ----
(***************************************************************************)
(* Model of the proxy gateway's token pool (TokenManagerService) and of    *)
(* the per-request retry loops of ProxyService.                            *)
(*                                                                         *)
(* Time is the wall clock in milliseconds (Date.now()).  The clock moves   *)
(* in steps of TickMs.                                                     *)
(***************************************************************************)
EXTENDS Integers, Sequences, FiniteSets, TLC

(***************************************************************************)
(* Bounds of the model.                                                    *)
(***************************************************************************)
MaxTicks == 2
MaxIndex == 4
MaxMarks == 1
MaxEndpoints == 3
MaxLines == 3
MaxChunkLines == 1
MaxContent == 165
MaxMarkers == 2
MaxValues == 1
MaxCandidates == 1
MaxEntries == 2
MaxMonitorTicks == 3
MaxPolls == 2

(***************************************************************************)
(* Program constants.                                                      *)
(***************************************************************************)
stickySessionTtlMs == 10 * 60 * 1000
rateLimitCooldownMsShort == 60 * 1000
rateLimitCooldownMs == 5 * 60 * 1000
forbiddenCooldownMs == 30 * 60 * 1000
RefreshWindowSec == 300
ExpiresInSec == 3600
maxRetriesPlusOne == 3 + 1
maxRetries == 3

TickMs == 5 * 60 * 1000
MaxNow == MaxTicks * TickMs
NearExpirySec == 2 * RefreshWindowSec
FarExpirySec == NearExpirySec + ExpiresInSec

(***************************************************************************)
(* Accounts, their e-mail labels, session keys.                            *)
(***************************************************************************)
Accounts == {"A", "B", "C"}
AccountOrder == <<"A", "B", "C">>
Emails == {"A@test.com", "B@test.com", "C@test.com"}
EmailOf(a) ==
  CASE a = "A" -> "A@test.com"
    [] a = "B" -> "B@test.com"
    [] OTHER -> "C@test.com"
MarkKeys == Accounts \cup Emails

InitialStores == {{}, {"A"}, {"A", "B"}, Accounts}

NoKey == ""
SessionKeys == {"s1"}
None == "none"

Range(s) == {s[i] : i \in 1..Len(s)}

VARIABLES
  now,             \* Date.now()
  store,           \* CloudAccountRepo: the ids of the stored accounts
  tokens,          \* TokenManagerService.tokens: ids in Map insertion order
  expiry,          \* TokenData.expiry_timestamp of each pool account (seconds)
  cooldowns,       \* TokenManagerService.cooldowns: key -> until (0: no entry)
  sessionBindings, \* TokenManagerService.sessionBindings
  currentIndex,    \* TokenManagerService.currentIndex
  call,            \* per caller: its getNextToken call (suspended in the
                   \* token refresh, or returned and not yet consumed)
  lastKeyed,       \* per session key: the latest returned call made with it
  nsel,            \* number of selections made, while plain
  plain,           \* every call so far was keyless, exclusion-free, on a
                   \* cooldown-free pool, and none overlapped another
  marks,           \* number of cooldown marks set by other requests
  req,             \* the request followed through its handler's retry loop
  client,          \* one GeminiClient call and its walk over the base URLs
  fb,              \* one generateInternalWithStreamFallback call
  sse,             \* one subscription to processStreamResponse's Observable
  obs,             \* one subscription to the Anthropic or pass-through stream
  mon,             \* CloudMonitorService: its static fields, the clock,
                   \* the armed timers and the polls in progress
  fn,              \* one call of a function of the frontends: its name,
                   \* its arguments and its result
  syn              \* one streaming attempt of handleChatCompletions that
                   \* ends in createSyntheticOpenAIStream

vars == <<now, store, tokens, expiry, cooldowns, sessionBindings, currentIndex,
          call, lastKeyed, nsel, plain, marks, req, client, fb, sse, syn, obs, fn, mon>>

EnvCallers == {"c1"}
ConcCallers == {"c1", "c2"}
ConcExclusions == {{}, {"A"}}
Callers == EnvCallers \cup ConcCallers \cup {"req"}

(***************************************************************************)
(* TokenManagerService.loadAccounts: every stored account is put into the  *)
(* map; Map.set keeps the position of a key that is already present.       *)
(***************************************************************************)
LoadedTokens(pool, st) ==
  pool \o SelectSeq(AccountOrder, LAMBDA a : a \in st /\ a \notin Range(pool))

(***************************************************************************)
(* TokenManagerService.getNextToken, candidate computation.                *)
(***************************************************************************)
ExcludedFilteredTokens(pool, excl) ==
  SelectSeq(pool, LAMBDA a : a \notin excl)

AllTokens(pool, excl) ==
  IF Len(ExcludedFilteredTokens(pool, excl)) > 0
    THEN ExcludedFilteredTokens(pool, excl)
    ELSE pool

InCooldown(cd, a, t) == cd[a] # 0 /\ ~(cd[a] <= t)

ValidTokensKeepCooled(pool, cd, excl, t) ==
  SelectSeq(AllTokens(pool, excl), LAMBDA a : a \notin excl)

ValidTokens(pool, cd, excl, t) ==
  SelectSeq(AllTokens(pool, excl),
            LAMBDA a : a \notin excl /\ ~InCooldown(cd, a, t))

CandidateTokensNoBypass(pool, cd, excl, t) == ValidTokens(pool, cd, excl, t)

CandidateTokens(pool, cd, excl, t) ==
  IF Len(ValidTokens(pool, cd, excl, t)) > 0
    THEN ValidTokens(pool, cd, excl, t)
    ELSE AllTokens(pool, excl)

(***************************************************************************)
(* TokenManagerService.clearExpiredSessionBindings.                        *)
(***************************************************************************)
ClearExpiredSessionBindingsNever(sb, t) == sb

ClearExpiredSessionBindings(sb, t) ==
  [k \in {x \in DOMAIN sb : ~(sb[x].expiresAt <= t)} |-> sb[k]]

(***************************************************************************)
(* The sticky match of getNextToken: a binding of the key that is still    *)
(* valid and whose account is among the candidates.                        *)
(***************************************************************************)
StickyMatchAnyAccount(sb, cands, sk, t) ==
  /\ sk # NoKey
  /\ sk \in DOMAIN sb
  /\ sb[sk].expiresAt > t

StickyMatch(sb, cands, sk, t) ==
  /\ sk # NoKey
  /\ sk \in DOMAIN sb
  /\ sb[sk].expiresAt > t
  /\ sb[sk].accountId \in Range(cands)

RoundRobinFirst(cands, idx) == cands[1]

RoundRobin(cands, idx) == cands[(idx % Len(cands)) + 1]

NeedsRefresh(nowSeconds, exp) == nowSeconds >= exp - RefreshWindowSec

(***************************************************************************)
(* finalizeSelectedToken, after the refresh: the session binding.          *)
(***************************************************************************)
BindSessionNoTtl(sb, sk, a, t) ==
  IF sk # NoKey
    THEN [k \in DOMAIN sb \cup {sk} |->
            IF k = sk THEN [accountId |-> a, expiresAt |-> t] ELSE sb[k]]
    ELSE sb

BindSession(sb, sk, a, t) ==
  IF sk # NoKey
    THEN [k \in DOMAIN sb \cup {sk} |->
            IF k = sk THEN [accountId |-> a, expiresAt |-> t + stickySessionTtlMs]
                      ELSE sb[k]]
    ELSE sb

(***************************************************************************)
(* resolveAccountId and markInCooldown.                                    *)
(***************************************************************************)
ResolveAccountIdNoEmail(pool, key) == key

ResolveAccountId(pool, key) ==
  IF key \in Range(pool) THEN key
  ELSE IF \E a \in Range(pool) : EmailOf(a) = key
    THEN CHOOSE a \in Range(pool) : EmailOf(a) = key
    ELSE key

MarkInCooldown(cd, pool, key, t, durationMs) ==
  [cd EXCEPT ![ResolveAccountId(pool, key)] = t + durationMs]

(***************************************************************************)
(* Project ids.  The stored project_id of each account; the ids the test   *)
(* /^cloud-code-\d+$/i of finalizeSelectedToken matches; the project_id of *)
(* the returned account (None is undefined); `token.token.project_id ?? ''`.*)
(***************************************************************************)
StoreProjectId(a) ==
  CASE a = "A" -> "cloud-code-123"
    [] a = "B" -> "Cloud-Code-7"
    [] OTHER -> "project-1"

MatchesCloudCodeCaseSensitive(pid) == pid \in {"cloud-code-123"}

MatchesCloudCode(pid) == pid \in {"cloud-code-123", "Cloud-Code-7"}

SanitizedProjectId(pid) ==
  IF pid = "" \/ MatchesCloudCode(pid) THEN None ELSE pid

ProjectIdOrEmpty(pid) == IF pid = None THEN "" ELSE pid

(***************************************************************************)
(* The project field of the body the handler builds from a project id:     *)
(* createGeminiInternalRequest in the Gemini handlers,                     *)
(* transformClaudeRequestIn in the Anthropic and OpenAI handlers.          *)
(***************************************************************************)
CreateGeminiInternalRequestProject(projectId) == projectId

TransformClaudeRequestInProject(projectId) == projectId

BodyProject(handler, projectId) ==
  IF handler \in {"gemini", "geminiStream"}
    THEN CreateGeminiInternalRequestProject(projectId)
    ELSE TransformClaudeRequestInProject(projectId)

(***************************************************************************)
(* Upstream error messages.  A message is known by the substrings that the *)
(* classifiers look for: Includes(msg, sub) is msg.toLowerCase()           *)
(* .includes(sub).                                                         *)
(***************************************************************************)
M429Quota == "429 quota exceeded"
M401Quota == "401 quota"
M500 == "500 internal error"
M400 == "400 invalid argument"
MProject == "You are currently configured to use a Google Cloud Project but lack a Gemini Code Assist license. (#3501)"
MEmptyStream == "Empty response stream"
MNoAccounts == "No available accounts"

UpstreamErrors == {M429Quota, M401Quota, M500, M400, MProject}

Substrings(msg) ==
  CASE msg = M429Quota -> {"429", "quota"}
    [] msg = M401Quota -> {"401", "quota"}
    [] msg = M500 -> {"500"}
    [] msg = M400 -> {}
    [] msg = MProject -> {"#3501", "google cloud project", "code assist license",
                          "project"}
    [] msg = MEmptyStream -> {"empty response stream"}
    [] OTHER -> {}

Includes(msg, sub) == sub \in Substrings(msg)

(***************************************************************************)
(* ProxyService.classifyUpstreamError.                                     *)
(***************************************************************************)
ClassifyUpstreamError(msg) ==
  LET isForbidden ==
        \/ Includes(msg, "401")
        \/ Includes(msg, "unauthorized")
        \/ Includes(msg, "invalid_grant")
        \/ Includes(msg, "403")
        \/ Includes(msg, "permission_denied")
        \/ Includes(msg, "forbidden")
      isRateLimitedSignal ==
        \/ Includes(msg, "429")
        \/ Includes(msg, "resource_exhausted")
        \/ Includes(msg, "quota")
        \/ Includes(msg, "rate_limit")
        \/ Includes(msg, "rate limit")
      shouldRetryByStatus ==
        \/ Includes(msg, "408")
        \/ Includes(msg, "429")
        \/ Includes(msg, "500")
        \/ Includes(msg, "502")
        \/ Includes(msg, "503")
        \/ Includes(msg, "504")
      shouldRetryByKeyword ==
        \/ Includes(msg, "resource_exhausted")
        \/ Includes(msg, "quota")
        \/ Includes(msg, "rate_limit")
        \/ Includes(msg, "timeout")
        \/ Includes(msg, "socket hang up")
        \/ Includes(msg, "empty response stream")
        \/ Includes(msg, "connection reset")
  IN
  IF isForbidden
    THEN [retry |-> TRUE, markAsForbidden |-> TRUE, markAsRateLimited |-> FALSE]
  ELSE IF shouldRetryByStatus \/ shouldRetryByKeyword
    THEN [retry |-> TRUE, markAsForbidden |-> FALSE,
          markAsRateLimited |-> isRateLimitedSignal]
  ELSE [retry |-> FALSE, markAsForbidden |-> FALSE, markAsRateLimited |-> FALSE]

IsProjectLicenseError(msg) ==
  \/ Includes(msg, "#3501")
  \/ Includes(msg, "google cloud project") /\ Includes(msg, "code assist license")

IsProjectNotFoundError(msg) ==
  \/ Includes(msg, "resource projects/") /\ Includes(msg, "could not be found")
  \/ Includes(msg, "project") /\ Includes(msg, "not found")

IsProjectContextErrorNever(msg) == FALSE

IsProjectContextError(msg) ==
  IsProjectLicenseError(msg) \/ IsProjectNotFoundError(msg)

IsQuotaExhaustedError(msg) ==
  \/ Includes(msg, "resource has been exhausted")
  \/ Includes(msg, "resource_exhausted")
  \/ Includes(msg, "quota")

(***************************************************************************)
(* The request: which handler runs it, and where the handler stands.       *)
(*   pc  : "idle", "select" (before getNextToken), "token" (in             *)
(*         getNextToken), the upstream stages "primary", "unaryfb" (unary  *)
(*         fallback of a failed OpenAI stream call), "project" (retry      *)
(*         without project), "quota" (Anthropic model downgrade), "done"   *)
(*   sub : the upstream call the stage is waiting for: "stream"            *)
(*         (streamGenerateInternal), or, inside                            *)
(*         generateInternalWithStreamFallback, "direct" (generateInternal),*)
(*         "fbstream" (its streamGenerateInternal), "collect"              *)
(*         (collectGeminiStreamAsResponse)                                 *)
(*   project : the project field of the body of that call                  *)
(*   model: the model of the request the upstream body is built from       *)
(*   respModel : the model field of a returned unary Anthropic response    *)
(*   out  : what the upstream call of this attempt that settled last ended *)
(*          with                                                           *)
(*   sel  : the accounts selected, in order                                *)
(*   outs : per account, the one outcome all upstream calls made with its  *)
(*          token had, "mixed" when they differed, None before any call    *)
(***************************************************************************)
Handlers == {"openai", "anthropic", "gemini", "geminiStream"}
Stages == {"primary", "unaryfb", "project", "quota"}

(***************************************************************************)
(* The model the client asks for, the model of the Anthropic downgrade,    *)
(* and the model field of the unary Anthropic responses: the mapper's      *)
(* value, which the downgrade overwrites with the client's.                *)
(***************************************************************************)
ClientModel == "claude-sonnet-4-5"

FallbackModel == "gemini-2.5-flash"

TransformResponseModel(bodyModel) == bodyModel

DowngradedResponseModelKept(transformed, requested) == transformed

DowngradedResponseModel(transformed, requested) == requested

ResponseModel(r) ==
  IF r.handler # "anthropic" \/ r.stream THEN None
  ELSE IF r.pc = "quota"
    THEN DowngradedResponseModel(TransformResponseModel(r.model), ClientModel)
  ELSE TransformResponseModel(r.model)

IdleReq ==
  [pc |-> "idle", handler |-> "openai", stream |-> FALSE, sk |-> NoKey, i |-> 0,
   attempted |-> {}, token |-> None, sub |-> None, project |-> "",
   model |-> ClientModel, respModel |-> None,
   out |-> None, lastError |-> None,
   result |-> None, thrown |-> None, sel |-> <<>>,
   outs |-> [a \in Accounts |-> None]]

IdleClient ==
  [pc |-> "idle", n |-> 0, index |-> 0, tried |-> <<>>, result |-> None,
   thrown |-> None]

IdleCall == [st |-> "idle"]
NoPrev == [acct |-> None, at |-> 0]
Quiet == \A c \in DOMAIN call : call[c].st # "returned"

(***************************************************************************)
(* The stored token of account A is the one closest to its expiry.         *)
(***************************************************************************)
StoreExpirySec(a) ==
  IF a = "A" THEN NearExpirySec ELSE FarExpirySec

(***************************************************************************)
(* generateInternalWithStreamFallback: the unary responses, the lines of   *)
(* the upstream SSE text and the frames its data lines carry.  A part is   *)
(* an element of a parts array; isGeminiPart keeps the JSON objects.       *)
(***************************************************************************)
Part(text) == [isRecord |-> TRUE, text |-> text]

NotAPart == [isRecord |-> FALSE, text |-> "x"]

NoParts == [isArray |-> FALSE, items |-> <<>>]

Parts(items) == [isArray |-> TRUE, items |-> items]

Frame(parts, finishReason, usageMetadata) ==
  [parts |-> parts, finishReason |-> finishReason,
   usageMetadata |-> usageMetadata]

Frames ==
  { Frame(Parts(<<Part("a")>>), None, None),
    Frame(Parts(<<Part("b"), Part("c")>>), "STOP", "usage5"),
    Frame(NoParts, "MAX_TOKENS", "usage7"),
    Frame(Parts(<<NotAPart, Part("d")>>), None, None) }

DataLine(f) == [kind |-> "data", frame |-> f]

OtherLine(kind) == [kind |-> kind, frame |-> Frame(NoParts, None, None)]

NoLine == OtherLine("none")

Lines ==
  {DataLine(f) : f \in Frames}
    \cup {OtherLine(k) : k \in {"done", "malformed"}}

Response(isArray, candidates, usageMetadata) ==
  [isArray |-> isArray, candidates |-> candidates,
   usageMetadata |-> usageMetadata]

Candidate(parts, finishReason) ==
  [parts |-> parts, finishReason |-> finishReason]

DirectResponses ==
  { Response(FALSE, <<>>, None),
    Response(TRUE, <<>>, None),
    Response(TRUE, <<Candidate(NoParts, "STOP")>>, "usage5"),
    Response(TRUE, <<Candidate(Parts(<<>>), "STOP")>>, "usage5"),
    Response(TRUE, <<Candidate(Parts(<<Part("a")>>), "STOP")>>, "usage5") }

FallbackCalls == {<<"body1", "tokenA">>, <<"body2", "tokenB">>}

HasUsableGeminiCandidate(response) ==
  IF ~response.isArray \/ Len(response.candidates) = 0 THEN FALSE
  ELSE LET parts == response.candidates[1].parts IN
       parts.isArray /\ Len(parts.items) > 0

IsGeminiPart(value) == value.isRecord

RECURSIVE FilterGeminiParts(_)
FilterGeminiParts(parts) ==
  IF parts = <<>> THEN <<>>
  ELSE (IF IsGeminiPart(Head(parts)) THEN <<Head(parts)>> ELSE <<>>)
         \o FilterGeminiParts(Tail(parts))

(***************************************************************************)
(* One line of the 'data' handler's loop: lines without the data prefix,   *)
(* [DONE] and lines whose JSON does not parse leave the collector alone.   *)
(***************************************************************************)
CollectLineFirstFinish(c, line) ==
  IF line.kind # "data" THEN c
  ELSE LET f == line.frame IN
       [c EXCEPT
          !.mergedParts =
            IF f.parts.isArray THEN @ \o FilterGeminiParts(f.parts.items)
            ELSE @,
          !.finishReason =
            IF f.finishReason # None /\ @ = None THEN f.finishReason ELSE @,
          !.usageMetadata =
            IF f.usageMetadata # None THEN f.usageMetadata ELSE @]

CollectLine(c, line) ==
  IF line.kind # "data" THEN c
  ELSE LET f == line.frame IN
       [c EXCEPT
          !.mergedParts =
            IF f.parts.isArray THEN @ \o FilterGeminiParts(f.parts.items)
            ELSE @,
          !.finishReason =
            IF f.finishReason # None THEN f.finishReason ELSE @,
          !.usageMetadata =
            IF f.usageMetadata # None THEN f.usageMetadata ELSE @]

RECURSIVE CollectLines(_, _)
CollectLines(c, lines) ==
  IF lines = <<>> THEN c
  ELSE CollectLines(CollectLine(c, Head(lines)), Tail(lines))

(***************************************************************************)
(* The promise's value on 'end'.                                           *)
(***************************************************************************)
CollectedResponse(c) ==
  Response(TRUE, <<Candidate(Parts(c.mergedParts), c.finishReason)>>,
           c.usageMetadata)

(***************************************************************************)
(* One call of generateInternalWithStreamFallback.                         *)
(*   calls : the streamGenerateInternal calls issued, as (body, token)     *)
(*   buffer: the text after the last newline: the begun line, or NoLine    *)
(*   sent  : the lines whose newline has arrived, in upstream order        *)
(*   n     : the lines begun                                               *)
(***************************************************************************)
IdleFb ==
  [pc |-> "idle", body |-> None, token |-> None,
   direct |-> Response(FALSE, <<>>, None),
   calls |-> <<>>, buffer |-> NoLine, receivedData |-> FALSE,
   mergedParts |-> <<>>, finishReason |-> None, usageMetadata |-> None,
   sent |-> <<>>, n |-> 0, result |-> Response(FALSE, <<>>, None),
   thrown |-> None]

(***************************************************************************)
(* processStreamResponse: the parts and frames of the upstream SSE text    *)
(* and the chunks written to the subscriber.  An absent or empty text is   *)
(* "", an absent functionCall or inlineData is None.                       *)
(***************************************************************************)
StreamPart(thought, text, functionCall, inlineData) ==
  [thought |-> thought, text |-> text, functionCall |-> functionCall,
   inlineData |-> inlineData]

ThoughtPart == StreamPart(TRUE, "thinking", None, None)
TextPartA == StreamPart(FALSE, "a", None, None)
TextPartB == StreamPart(FALSE, "b", None, None)
EmptyTextPart == StreamPart(FALSE, "", None, None)
CallPart == StreamPart(FALSE, "", "lookup", None)
ImagePart == StreamPart(FALSE, "", None, "aGk=")

StreamFrame(parts, finishReason) ==
  [parts |-> parts, finishReason |-> finishReason]

StreamFrames ==
  { StreamFrame(<<ThoughtPart, TextPartA>>, None),
    StreamFrame(<<CallPart, ImagePart>>, None),
    StreamFrame(<<TextPartB>>, "STOP"),
    StreamFrame(<<>>, "MAX_TOKENS"),
    StreamFrame(<<EmptyTextPart>>, None) }

StreamLine(kind, frame) == [kind |-> kind, frame |-> frame]

NoStreamLine == StreamLine("none", StreamFrame(<<>>, None))

StreamLines ==
  {StreamLine("data", f) : f \in StreamFrames}
    \cup {StreamLine(k, StreamFrame(<<>>, None)) : k \in {"done", "malformed"}}

MapGeminiFinishReasonToOpenAIFinishReason(finishReason) ==
  CASE finishReason = None -> None
    [] finishReason = "STOP" -> "stop"
    [] finishReason = "MAX_TOKENS" -> "length"
    [] finishReason \in {"SAFETY", "RECITATION"} -> "content_filter"
    [] OTHER -> finishReason

StreamIdentities == {<<"chatcmpl-1", 100>>, <<"chatcmpl-2", 200>>}

StreamModel == "gemini-2.5-flash"

Chunk(id, created, kind, value, finishReason) ==
  [id |-> id, created |-> created, model |-> StreamModel,
   delta |-> [kind |-> kind, value |-> value],
   finish_reason |-> finishReason]

ImageMarkdown(data) ==
  "\n\n![Generated Image](data:image/jpeg;base64," \o data \o ")\n\n"

DoneItem == Chunk("", 0, "[DONE]", "", None)

(***************************************************************************)
(* The chunk of one part, if it has one.                                   *)
(***************************************************************************)
PartChunksTextFirst(id, created, part) ==
  IF part.text # ""
    THEN <<Chunk(id, created, "content", part.text, None)>>
  ELSE IF part.functionCall # None
    THEN <<Chunk(id, created, "tool_calls", part.functionCall, None)>>
  ELSE IF part.inlineData # None
    THEN <<Chunk(id, created, "content", ImageMarkdown(part.inlineData),
                 None)>>
  ELSE <<>>

PartChunks(id, created, part) ==
  IF part.thought /\ part.text # ""
    THEN <<Chunk(id, created, "reasoning_content", part.text, None)>>
  ELSE IF part.functionCall # None
    THEN <<Chunk(id, created, "tool_calls", part.functionCall, None)>>
  ELSE IF part.inlineData # None
    THEN <<Chunk(id, created, "content", ImageMarkdown(part.inlineData),
                 None)>>
  ELSE IF part.text # ""
    THEN <<Chunk(id, created, "content", part.text, None)>>
  ELSE <<>>

(***************************************************************************)
(* The Observable's subscriber: next, complete and error do nothing once   *)
(* it is closed.                                                           *)
(***************************************************************************)
SubscriberNext(o, item) ==
  IF o.closed THEN o ELSE [o EXCEPT !.out = Append(@, item)]

SubscriberComplete(o) ==
  IF o.closed THEN o
  ELSE [o EXCEPT !.closed = TRUE, !.term = Append(@, "complete")]

SubscriberError(o, message) ==
  IF o.closed THEN o
  ELSE [o EXCEPT !.closed = TRUE, !.term = Append(@, message)]

PushChunk(o, chunk) ==
  SubscriberNext([o EXCEPT !.hasEmittedChunk = TRUE], chunk)

RECURSIVE PushChunks(_, _)
PushChunks(o, chunks) ==
  IF chunks = <<>> THEN o
  ELSE PushChunks(PushChunk(o, Head(chunks)), Tail(chunks))

RECURSIVE PartsChunks(_, _, _)
PartsChunks(id, created, parts) ==
  IF parts = <<>> THEN <<>>
  ELSE PartChunks(id, created, Head(parts))
         \o PartsChunks(id, created, Tail(parts))

(***************************************************************************)
(* One line of the 'data' handler's loop.                                  *)
(***************************************************************************)
StreamLineDoneOnly(o, line) ==
  IF line.kind # "data" THEN o
  ELSE LET f == line.frame
           afterParts == PushChunks(o, PartsChunks(o.id, o.created, f.parts))
       IN
       IF f.finishReason = None THEN afterParts
       ELSE LET finished ==
                  SubscriberNext(
                    PushChunk(afterParts,
                      Chunk(o.id, o.created, "empty", "",
                            MapGeminiFinishReasonToOpenAIFinishReason(
                              f.finishReason))),
                    DoneItem)
            IN [finished EXCEPT !.hasSentDone = TRUE]

ProcessStreamLine(o, line) ==
  IF line.kind # "data" THEN o
  ELSE LET f == line.frame
           afterParts == PushChunks(o, PartsChunks(o.id, o.created, f.parts))
       IN
       IF f.finishReason = None THEN afterParts
       ELSE LET finished ==
                  SubscriberNext(
                    PushChunk(afterParts,
                      Chunk(o.id, o.created, "empty", "",
                            MapGeminiFinishReasonToOpenAIFinishReason(
                              f.finishReason))),
                    DoneItem)
            IN SubscriberComplete([finished EXCEPT !.hasSentDone = TRUE])

RECURSIVE ProcessStreamLines(_, _)
ProcessStreamLines(o, lines) ==
  IF lines = <<>> THEN o
  ELSE ProcessStreamLines(ProcessStreamLine(o, Head(lines)), Tail(lines))

(***************************************************************************)
(* One subscription to the Observable of processStreamResponse.            *)
(*   out  : what the subscriber was handed by next, in order               *)
(*   term : the complete and error notifications it was handed             *)
(*   sent : the lines whose newline has arrived, in upstream order         *)
(*   n    : the lines begun                                                *)
(*   unsubscribed : the controller has unsubscribed                        *)
(***************************************************************************)
IdleSse ==
  [pc |-> "idle", id |-> "", created |-> 0, buffer |-> NoStreamLine,
   hasEmittedChunk |-> FALSE, hasSentDone |-> FALSE, closed |-> FALSE,
   out |-> <<>>, term |-> <<>>, sent |-> <<>>, n |-> 0, upstream |-> "open",
   unsubscribed |-> FALSE]

(***************************************************************************)
(* createSyntheticOpenAIStream.  The content of the unary response is a    *)
(* sequence of characters, each written as its position.                   *)
(***************************************************************************)
chunkSize == 80

Content(length) == [i \in 1..length |-> i]

FinishReasons == {None, "stop", "length", "tool_calls"}

IsLastStrict(index, length) == index + chunkSize > length

IsLast(index, length) == index + chunkSize >= length

SyntheticChunk(piece, hasContent, finishReason) ==
  [content |-> piece, hasContent |-> hasContent,
   finish_reason |-> finishReason, done |-> FALSE]

SyntheticDone == [content |-> <<>>, hasContent |-> FALSE,
                  finish_reason |-> None, done |-> TRUE]

Slice(content, from, to) ==
  SubSeq(content, from + 1, IF to < Len(content) THEN to ELSE Len(content))

RECURSIVE SyntheticChunks(_, _, _)
SyntheticChunks(content, finishReason, index) ==
  IF index >= Len(content) THEN <<>>
  ELSE <<SyntheticChunk(Slice(content, index, index + chunkSize), TRUE,
                        IF IsLast(index, Len(content)) THEN finishReason
                        ELSE None)>>
         \o SyntheticChunks(content, finishReason, index + chunkSize)

CreateSyntheticOpenAIStream(response) ==
  LET finishReason == IF response.finish_reason = None THEN "stop"
                      ELSE response.finish_reason
      content == IF response.contentIsString THEN response.content ELSE <<>>
  IN
  IF Len(content) = 0
    THEN <<SyntheticChunk(<<>>, FALSE, finishReason), SyntheticDone>>
  ELSE Append(SyntheticChunks(content, finishReason, 0), SyntheticDone)

(***************************************************************************)
(* The streaming branch of one attempt of handleChatCompletions.           *)
(*   calls : the upstream calls issued, as (kind, access token)            *)
(*   out, term : what the subscriber of the returned Observable was handed *)
(***************************************************************************)
IdleSyn ==
  [pc |-> "idle", token |-> None, calls |-> <<>>,
   response |-> [content |-> <<>>, contentIsString |-> FALSE,
                 finish_reason |-> None],
   returned |-> None, out |-> <<>>, term |-> <<>>, thrown |-> None]

(***************************************************************************)
(* processAnthropicInternalStream and passthroughSseStream.  What the      *)
(* subscriber is handed is an item (kind, message); the events that        *)
(* StreamingState and PartProcessor make of a line are one item per line.  *)
(***************************************************************************)
ObserverKinds == {"anthropic", "passthrough"}

ObserverLines == {"frame", "malformed", "done"}

Item(kind, message) == [kind |-> kind, message |-> message]

AnthropicLineEvents(line) ==
  CASE line = "frame" -> <<Item("events", "")>>
    [] line = "malformed" -> <<Item("parse_error", "")>>
    [] OTHER -> <<>>

EmitFinish == <<Item("finish", "")>>

FormatErrorForSSE(message) == Item("sse_error", message)

RECURSIVE SubscriberNextAll(_, _)
SubscriberNextAll(o, items) ==
  IF items = <<>> THEN o
  ELSE SubscriberNextAll(SubscriberNext(o, Head(items)), Tail(items))

RECURSIVE AnthropicLines(_, _)
AnthropicLines(o, lines) ==
  IF lines = <<>> THEN o
  ELSE AnthropicLines(SubscriberNextAll(o, AnthropicLineEvents(Head(lines))),
                      Tail(lines))

(***************************************************************************)
(* The 'data', 'end' and 'error' handlers of the two streams.              *)
(***************************************************************************)
ObserverData(o, lines) ==
  IF o.kind = "anthropic"
    THEN AnthropicLines([o EXCEPT !.receivedData = TRUE], lines)
  ELSE SubscriberNext([o EXCEPT !.receivedData = TRUE], Item("bytes", ""))

ObserverEndAlwaysCompletes(o) ==
  IF o.kind = "anthropic"
    THEN SubscriberComplete(SubscriberNextAll(o, EmitFinish))
  ELSE SubscriberComplete(o)

ObserverEnd(o) ==
  IF ~o.receivedData THEN SubscriberError(o, MEmptyStream)
  ELSE IF o.kind = "anthropic"
    THEN SubscriberComplete(SubscriberNextAll(o, EmitFinish))
  ELSE SubscriberComplete(o)

ObserverError(o, message) ==
  IF o.kind = "anthropic"
    THEN SubscriberError(SubscriberNext(o, FormatErrorForSSE(message)),
                         message)
  ELSE SubscriberError(o, message)

(***************************************************************************)
(* One subscription to one of the two Observables.                         *)
(*   events : the 'data' events so far                                     *)
(*   sent   : the lines whose newline has arrived                          *)
(***************************************************************************)
IdleObs ==
  [pc |-> "idle", kind |-> "anthropic", buffer |-> "none",
   receivedData |-> FALSE, closed |-> FALSE, out |-> <<>>, term |-> <<>>,
   events |-> 0, sent |-> <<>>, n |-> 0, upstream |-> "open",
   error |-> None]

(***************************************************************************)
(* The frontends' catch blocks.  An error message is the set of the        *)
(* substrings of its lower-cased text that the mapping looks for.          *)
(***************************************************************************)
IdleFn == [op |-> "idle"]

Markers ==
  {"all accounts failed or unhealthy", "all accounts exhausted",
   "no available accounts", "network socket disconnected",
   "secure tls connection was established", "socket hang up", "econnreset",
   "eai_again", "401", "unauthorized", "403", "forbidden", "429", "rate limit", "quota",
   "503", "service unavailable", "502", "bad gateway", "504", "timeout"}

Messages == {m \in SUBSET Markers : Cardinality(m) <= MaxMarkers}

Frontends == {"openai", "anthropic", "gemini"}

HasAny(message, subs) == message \cap subs # {}

ResolveUpstreamStatus(message) ==
  IF HasAny(message, {"all accounts failed or unhealthy"}) THEN 503
  ELSE IF HasAny(message, {"all accounts exhausted", "no available accounts"})
    THEN 429
  ELSE IF HasAny(message, {"network socket disconnected",
                           "secure tls connection was established",
                           "socket hang up", "econnreset", "eai_again"})
    THEN 503
  ELSE IF HasAny(message, {"401", "unauthorized"}) THEN 401
  ELSE IF HasAny(message, {"403", "forbidden"}) THEN 403
  ELSE IF HasAny(message, {"429", "rate limit", "quota"}) THEN 429
  ELSE IF HasAny(message, {"503", "service unavailable"}) THEN 503
  ELSE IF HasAny(message, {"502", "bad gateway"}) THEN 502
  ELSE IF HasAny(message, {"504", "timeout"}) THEN 504
  ELSE 500

(***************************************************************************)
(* The status each frontend answers an orchestrator error with.            *)
(***************************************************************************)
FrontendStatus(frontend, message) ==
  IF frontend = "gemini" THEN 500 ELSE ResolveUpstreamStatus(message)

(***************************************************************************)
(* The API-key guard.  A string is the sequence of its words (its text     *)
(* trimmed and split at white space), so the blank string is <<>>; a       *)
(* header is the array of its values, the absent header the empty array.   *)
(* The configured key also records whether it is a string at all and       *)
(* whether white space surrounds it.                                       *)
(***************************************************************************)
ConfiguredKey(isString, words, padded) ==
  [isString |-> isString, words |-> words, padded |-> padded]

ApiKeys ==
  {ConfiguredKey(FALSE, <<>>, FALSE), ConfiguredKey(TRUE, <<>>, FALSE),
   ConfiguredKey(TRUE, <<>>, TRUE), ConfiguredKey(TRUE, <<"key">>, FALSE),
   ConfiguredKey(TRUE, <<"key">>, TRUE)}

AuthorizationValues ==
  {<<>>, <<"Bearer", "key">>, <<"Bearer", "other">>, <<"bearer", "key">>,
   <<"Basic", "key">>, <<"Bearer">>, <<"key">>, <<"Bearer", "key", "extra">>}

KeyValues == {<<>>, <<"key">>, <<"other">>}

HeaderArrays(values) == UNION {[1..n -> values] : n \in 0..MaxValues}

ToLowerCase(word) ==
  CASE word = "Bearer" -> "bearer"
    [] word = "Basic" -> "basic"
    [] OTHER -> word

HasConfiguredApiKey(apiKey) == apiKey.isString /\ apiKey.words # <<>>

(* readHeaderValue: the first non-blank value, trimmed; <<>> stands for null *)
ReadHeaderValue(headerValue) ==
  IF \E i \in 1..Len(headerValue) : headerValue[i] # <<>>
  THEN headerValue[CHOOSE i \in 1..Len(headerValue) :
                     /\ headerValue[i] # <<>>
                     /\ \A j \in 1..(i - 1) : headerValue[j] = <<>>]
  ELSE <<>>

IsBearer(value) == Len(value) = 2 /\ ToLowerCase(value[1]) = "bearer"

ExtractApiKeyToken(headers) ==
  LET authorizationHeader == ReadHeaderValue(headers.authorization)
      xApiKeyHeader == ReadHeaderValue(headers.xApiKey)
      xGoogApiKeyHeader == ReadHeaderValue(headers.xGoogApiKey)
  IN IF IsBearer(authorizationHeader) THEN <<authorizationHeader[2]>>
     ELSE IF xApiKeyHeader # <<>> THEN xApiKeyHeader
     ELSE IF xGoogApiKeyHeader # <<>> THEN xGoogApiKeyHeader
     ELSE <<>>

(* canActivate: TRUE lets the request in, FALSE is the UnauthorizedException *)
CanActivate(apiKey, headers) ==
  LET clientToken == ExtractApiKeyToken(headers)
  IN IF ~HasConfiguredApiKey(apiKey) THEN TRUE
     ELSE /\ ~apiKey.padded
          /\ clientToken = apiKey.words

(***************************************************************************)
(* The Gemini generateContent response and its normalization.  An object   *)
(* is the function from the fields it defines to their values.             *)
(***************************************************************************)
CanonicalUsageFields ==
  {"promptTokenCount", "candidatesTokenCount", "totalTokenCount"}

CopiedUsageFields ==
  CanonicalUsageFields \cup
    {"thoughtsTokenCount", "promptTokensDetails", "candidatesTokensDetails",
     "trafficType"}

UsageFields == CopiedUsageFields \cup {"cachedContentTokenCount"}

UsageValue(field) ==
  CASE field = "promptTokenCount" -> 0
    [] field = "candidatesTokenCount" -> 2
    [] field = "totalTokenCount" -> 3
    [] field = "thoughtsTokenCount" -> 4
    [] OTHER -> 5

UsageMetadatas == {[f \in fields |-> UsageValue(f)] : fields \in SUBSET UsageFields}

ResponseMetadata == {"responseId", "createTime"}

GeminiCandidates ==
  [content : {"content"}, finishReason : {"STOP"}, hasIndex : BOOLEAN,
   index : {3}, safetyRatings : BOOLEAN]

GeminiResponse(isArray, candidates, hasUsage, usageMetadata, metadata) ==
  [isArray |-> isArray, candidates |-> candidates, hasUsage |-> hasUsage,
   usageMetadata |-> usageMetadata, metadata |-> metadata]

GeminiResponses ==
  {GeminiResponse(isArray, candidates, hasUsage, usageMetadata, metadata) :
     isArray \in BOOLEAN,
     candidates \in UNION {[1..n -> GeminiCandidates] : n \in 0..MaxCandidates},
     hasUsage \in BOOLEAN, usageMetadata \in UsageMetadatas,
     metadata \in SUBSET ResponseMetadata}

UpstreamGeminiResponses ==
  {r \in GeminiResponses :
     /\ ~r.isArray => r.candidates = <<>>
     /\ ~r.hasUsage => DOMAIN r.usageMetadata = {}}

Pick(object, fields) == [f \in (DOMAIN object) \cap fields |-> object[f]]

NormalizeCandidate(candidate, index) ==
  [content |-> candidate.content, finishReason |-> candidate.finishReason,
   hasIndex |-> TRUE,
   index |-> IF candidate.hasIndex THEN candidate.index ELSE index,
   safetyRatings |-> FALSE]

NormalizeGeminiUsageMetadata(usageMetadata) ==
  Pick(usageMetadata, CopiedUsageFields)

(* isEmpty: an empty usageMetadata is left out of the result *)
NormalizeGeminiGenerateResponse(response) ==
  LET candidates ==
        IF response.isArray
        THEN [i \in 1..Len(response.candidates) |->
                NormalizeCandidate(response.candidates[i], i - 1)]
        ELSE <<>>
      usageMetadata == NormalizeGeminiUsageMetadata(response.usageMetadata)
  IN GeminiResponse(TRUE, candidates,
                    response.hasUsage /\ DOMAIN usageMetadata # {},
                    IF response.hasUsage THEN usageMetadata
                    ELSE Pick(usageMetadata, {}), {})

(***************************************************************************)
(* Model routing.  A configured mapping is the sequence of its entries     *)
(* <<key, target>> in insertion order, with distinct keys; "" stands for   *)
(* a missing (undefined) target.                                           *)
(***************************************************************************)
RequestedModels ==
  {"models/claude-sonnet-4-5", "claude-3-5-sonnet-20241022", "gpt-4",
   "unknown-model"}

MappingKeys ==
  {"claude-sonnet-4-5", "claude-3-5-sonnet-20241022", "claude-*",
   "claude-3.5-series"}

MappingEntries ==
  (MappingKeys \X {"gemini-3-pro", "gemini-2.5-flash"})
    \cup {<<"claude-sonnet-4-5", "">>}

Mappings ==
  {m \in UNION {[1..n -> MappingEntries] : n \in 0..MaxEntries} :
     \A i, j \in 1..Len(m) : m[i][1] = m[j][1] => i = j}

NormalizedModel(model) ==
  IF model = "models/claude-sonnet-4-5" THEN "claude-sonnet-4-5" ELSE model

Lookup(mapping, key) ==
  IF \E i \in 1..Len(mapping) : mapping[i][1] = key
  THEN mapping[CHOOSE i \in 1..Len(mapping) : mapping[i][1] = key][2]
  ELSE ""

(* { ...a, ...b }: b's value replaces a's in place, b's new keys follow *)
RECURSIVE Spread(_, _)
Spread(a, b) ==
  IF b = <<>> THEN a
  ELSE LET entry == Head(b)
           merged ==
             IF \E i \in 1..Len(a) : a[i][1] = entry[1]
             THEN [i \in 1..Len(a) |->
                     IF a[i][1] = entry[1] THEN entry ELSE a[i]]
             ELSE Append(a, entry)
       IN Spread(merged, Tail(b))

IsWildcardKey(key) == key = "claude-*"

(* new RegExp('^' + escaped + '$', 'i').test(model) *)
WildcardMatches(key, model) ==
  /\ key = "claude-*"
  /\ model \in {"claude-sonnet-4-5", "claude-3-5-sonnet-20241022"}

CLAUDE_TO_GEMINI(input) ==
  CASE input = "claude-sonnet-4-5" -> "claude-sonnet-4-5"
    [] input = "claude-3-5-sonnet-20241022" -> "claude-sonnet-4-5"
    [] input = "gpt-4" -> "gemini-2.5-flash"
    [] OTHER -> ""

MapClaudeModelToGemini(input) ==
  IF CLAUDE_TO_GEMINI(input) # "" THEN CLAUDE_TO_GEMINI(input) ELSE input

(* the OpenAI family keys resolveModelRoute tries for a model, in order *)
OpenAIFamilyKeys(model) ==
  IF model = "gpt-4" THEN <<"gpt-4-series">> ELSE <<>>

IsClaude(model) ==
  model \in {"claude-sonnet-4-5", "claude-3-5-sonnet-20241022"}

ClaudeFamilyKey(model) ==
  CASE model = "claude-sonnet-4-5" -> "claude-4.5-series"
    [] model = "claude-3-5-sonnet-20241022" -> "claude-3.5-series"
    [] OTHER -> "claude-default"

ResolveModelRoute(originalModel, customMapping, openaiMapping, anthropicMapping) ==
  LET families == OpenAIFamilyKeys(originalModel)
      defined == {i \in 1..Len(families) :
                    Lookup(openaiMapping, families[i]) # ""}
  IN IF Lookup(customMapping, originalModel) # ""
     THEN Lookup(customMapping, originalModel)
     ELSE IF defined # {}
     THEN Lookup(openaiMapping,
                 families[CHOOSE i \in defined : \A j \in defined : i <= j])
     ELSE IF /\ IsClaude(originalModel)
             /\ Lookup(anthropicMapping, ClaudeFamilyKey(originalModel)) # ""
     THEN Lookup(anthropicMapping, ClaudeFamilyKey(originalModel))
     ELSE IF /\ IsClaude(originalModel)
             /\ Lookup(anthropicMapping, originalModel) # ""
     THEN Lookup(anthropicMapping, originalModel)
     ELSE MapClaudeModelToGemini(originalModel)

Usable(entry) == entry[1] # "" /\ entry[2] # ""

WildcardMapping(configuredMapping) ==
  LET F[i \in 0..Len(configuredMapping)] ==
        IF i = 0 THEN <<>>
        ELSE IF /\ Usable(configuredMapping[i])
                /\ IsWildcardKey(configuredMapping[i][1])
        THEN Append(F[i - 1], configuredMapping[i])
        ELSE F[i - 1]
  IN F[Len(configuredMapping)]

CustomExactMapping(configuredMapping) ==
  LET F[i \in 0..Len(configuredMapping)] ==
        IF i = 0 THEN <<>>
        ELSE IF /\ Usable(configuredMapping[i])
                /\ ~IsWildcardKey(configuredMapping[i][1])
        THEN Append(F[i - 1], configuredMapping[i])
        ELSE F[i - 1]
  IN F[Len(configuredMapping)]

MapModel(model, custom_mapping, anthropic_mapping) ==
  LET normalizedModel == NormalizedModel(model)
      configuredMapping == Spread(custom_mapping, anthropic_mapping)
      wildcardMapping == WildcardMapping(configuredMapping)
      customExactMapping == CustomExactMapping(configuredMapping)
      matching == {i \in 1..Len(wildcardMapping) :
                     WildcardMatches(wildcardMapping[i][1], normalizedModel)}
  IN IF matching # {}
     THEN wildcardMapping[CHOOSE i \in matching :
                            \A j \in matching : i <= j][2]
     ELSE ResolveModelRoute(normalizedModel, customExactMapping, <<>>, <<>>)

(***************************************************************************)
(* CloudMonitorService.  The clock is Date.now() in milliseconds; it       *)
(* starts at an epoch far from 0, as a real clock does.  timers counts     *)
(* the interval timers that are armed, intervalId tells whether the        *)
(* service holds a handle, armedAt when that timer was armed or last       *)
(* fired.  polls counts, per caller, the polls past the guard that have    *)
(* not finished; startedAt and focusedAt are the times of the start() and  *)
(* of the focus that last passed their guards, focusArmed whether a timer  *)
(* was armed at that focus.  last describes the latest                     *)
(* call: whether it found a poll in progress and a timer armed, read the   *)
(* account store, invoked poll(), triggered a focus poll, and for the end  *)
(* of a poll its caller and whether it failed.                             *)
(***************************************************************************)
POLL_INTERVAL == 1000 * 60 * 5
DEBOUNCE_TIME == 10000
MonitorTickMs == DEBOUNCE_TIME \div 2
MonitorEpochMs == 100 * DEBOUNCE_TIME

PollCallers == {"start", "timer", "focus", "direct"}

NoCall ==
  [op |-> "none", wasPolling |-> FALSE, wasArmed |-> FALSE,
   readStore |-> FALSE, pollCalled |-> FALSE, triggered |-> FALSE,
   caller |-> "none", failed |-> FALSE]

IdleMon ==
  [clock |-> MonitorEpochMs, ticks |-> 0, intervalId |-> FALSE, timers |-> 0,
   armedAt |-> 0, lastFocusTime |-> 0, isPolling |-> FALSE,
   polls |-> [c \in PollCallers |-> 0], startedAt |-> 0, focusedAt |-> 0,
   focusArmed |-> FALSE, last |-> NoCall]

RunningPolls(m) ==
  m.polls["start"] + m.polls["timer"] + m.polls["focus"] + m.polls["direct"]

Called(m, op, readStore, pollCalled, triggered) ==
  [op |-> op, wasPolling |-> m.isPolling, wasArmed |-> m.intervalId,
   readStore |-> readStore, pollCalled |-> pollCalled,
   triggered |-> triggered, caller |-> "none", failed |-> FALSE]

(* clearInterval(intervalId) when a handle is held, then setInterval *)
StartInterval(m) ==
  [m EXCEPT !.intervalId = TRUE,
            !.timers = IF m.intervalId THEN m.timers ELSE m.timers + 1,
            !.armedAt = m.clock]

ResetIntervalAlways(m) == StartInterval(m)

ResetInterval(m) == IF m.intervalId THEN StartInterval(m) ELSE m

(* poll() up to its first await: the guard, the flag, getAccounts() *)
PollGuardFocusOnly(m, caller) == caller = "focus" /\ m.isPolling

PollGuard(m, caller) == m.isPolling

PollEnters(m, caller) ==
  IF PollGuard(m, caller) THEN m
  ELSE [m EXCEPT !.isPolling = TRUE, !.polls[caller] = m.polls[caller] + 1]

DebouncedTooShort(m) == m.clock - m.lastFocusTime < DEBOUNCE_TIME \div 2

Debounced(m) == m.clock - m.lastFocusTime < DEBOUNCE_TIME

TimerDue(m) == m.intervalId /\ m.clock - m.armedAt >= POLL_INTERVAL

TypeOK ==
  /\ now \in 0..MaxNow
  /\ store \subseteq Accounts
  /\ Range(tokens) \subseteq Accounts
  /\ currentIndex \in 0..MaxIndex
  /\ DOMAIN sessionBindings \subseteq SessionKeys
  /\ nsel \in 0..MaxIndex
  /\ plain \in BOOLEAN
  /\ marks \in 0..MaxMarks
  /\ \A c \in Callers : call[c].st \in {"idle", "loading", "refresh", "returned"}

Init ==
  /\ now = 0
  /\ store \in InitialStores
  /\ tokens = LoadedTokens(<<>>, store)
  /\ expiry = [a \in Accounts |-> StoreExpirySec(a)]
  /\ cooldowns = [k \in MarkKeys |-> 0]
  /\ sessionBindings = <<>>
  /\ currentIndex = 0
  /\ call = [c \in Callers |-> IdleCall]
  /\ lastKeyed = [k \in SessionKeys |-> NoPrev]
  /\ nsel = 0
  /\ plain = TRUE
  /\ marks = 0
  /\ req = IdleReq
  /\ client = IdleClient
  /\ fb = IdleFb
  /\ sse = IdleSse
  /\ syn = IdleSyn
  /\ obs = IdleObs
  /\ fn = IdleFn
  /\ mon = IdleMon

(***************************************************************************)
(* The clock.                                                              *)
(***************************************************************************)
Tick ==
  /\ Quiet
  /\ now + TickMs <= MaxNow
  /\ now' = now + TickMs
  /\ lastKeyed' = [k \in SessionKeys |->
                     IF now' - lastKeyed[k].at >= stickySessionTtlMs
                       THEN NoPrev ELSE lastKeyed[k]]
  /\ UNCHANGED <<store, tokens, expiry, cooldowns, sessionBindings,
                 currentIndex, call, nsel, plain, marks, req, client, fb, sse, syn, obs, fn, mon>>

(***************************************************************************)
(* The account store changes outside the proxy.  The pool reads the store  *)
(* only in loadAccounts, which getNextToken calls on an empty pool, so     *)
(* store changes are followed while the pool is empty.                     *)
(***************************************************************************)
StoreAdd(a) ==
  /\ Quiet
  /\ Len(tokens) = 0
  /\ a \notin store
  /\ store' = store \cup {a}
  /\ UNCHANGED <<now, tokens, expiry, cooldowns, sessionBindings,
                 currentIndex, call, lastKeyed, nsel, plain, marks, req,
                 client, fb, sse, syn, obs, fn, mon>>

(***************************************************************************)
(* What a getNextToken call that returns account a leaves behind.          *)
(***************************************************************************)
Returned(lk, sk, a, madeAt) ==
  IF sk # NoKey
    THEN [lk EXCEPT ![sk] = [acct |-> a, at |-> madeAt]]
    ELSE lk

(***************************************************************************)
(* getNextToken from the pool it works on (reloaded when it was empty) up  *)
(* to the refresh: clear the expired bindings, compute the candidates,     *)
(* pick by stickiness or round robin, and finalize unless the token must   *)
(* be refreshed first.  The code has no await in this stretch.  The call   *)
(* record keeps the arguments and what the call saw.                       *)
(***************************************************************************)
NextIndexStale(idx, stick) == idx

NextIndex(idx, stick) == IF stick THEN idx ELSE idx + 1

SelectToken(c, sk, excl, pool, exp) ==
  LET t     == now
      sb    == ClearExpiredSessionBindings(sessionBindings, t)
      cands == CandidateTokens(pool, cooldowns, excl, t)
      stick == StickyMatch(sb, cands, sk, t)
      a     == IF stick THEN sb[sk].accountId ELSE RoundRobin(cands, currentIndex)
      seen  == [sk |-> sk, excl |-> excl, at |-> t, pool |-> pool,
                cooled |-> {x \in Range(pool) : cooldowns[x] > t},
                prev |-> IF sk # NoKey THEN lastKeyed[sk] ELSE NoPrev,
                alone |-> \A d \in Callers : call[d].st # "refresh",
                bound |-> IF sk \in DOMAIN sessionBindings
                            THEN sessionBindings[sk].expiresAt ELSE 0,
                stick |-> Len(pool) > 0 /\ Len(cands) > 0 /\ stick,
                cands |-> Range(cands),
                idx |-> currentIndex, k |-> nsel + 1, plain |-> FALSE]
  IN
  /\ Quiet
  /\ tokens' = pool
  /\ expiry' = exp
  /\ IF Len(pool) = 0
       THEN /\ call' = [call EXCEPT ![c] =
                          [st |-> "returned", ret |-> None, seen |-> seen]]
            /\ UNCHANGED <<sessionBindings, currentIndex, lastKeyed, nsel, plain>>
       ELSE IF Len(cands) = 0
       THEN /\ call' = [call EXCEPT ![c] =
                          [st |-> "returned", ret |-> None, seen |-> seen]]
            /\ sessionBindings' = sb
            /\ UNCHANGED <<currentIndex, lastKeyed, nsel, plain>>
       ELSE /\ currentIndex < MaxIndex
            /\ currentIndex' = NextIndex(currentIndex, stick)
            /\ plain' = (/\ plain
                         /\ sk = NoKey
                         /\ excl = {}
                         /\ seen.alone)
            /\ nsel' = IF plain' THEN nsel + 1 ELSE 0
            /\ IF NeedsRefresh(t \div 1000, expiry'[a])
                 THEN /\ call' = [call EXCEPT ![c] =
                                    [st |-> "refresh", ret |-> a,
                                     nowSeconds |-> t \div 1000,
                                     seen |-> [seen EXCEPT !.plain = plain']]]
                      /\ sessionBindings' = sb
                      /\ UNCHANGED lastKeyed
                 ELSE /\ call' = [call EXCEPT ![c] =
                                    [st |-> "returned", ret |-> a,
                                     seen |-> [seen EXCEPT !.plain = plain']]]
                      /\ sessionBindings' = BindSession(sb, sk, a, now)
                      /\ lastKeyed' = Returned(lastKeyed, sk, a, t)
  /\ UNCHANGED <<now, store, cooldowns, marks, client, fb, sse, syn, obs, fn, mon>>

GetNextToken(c, sk, excl, loadOk) ==
  /\ call[c].st = "idle"
  /\ SelectToken(c, sk, excl,
                 IF Len(tokens) = 0 /\ loadOk THEN LoadedTokens(tokens, store)
                 ELSE tokens,
                 IF Len(tokens) = 0 /\ loadOk
                   THEN [x \in Accounts |-> StoreExpirySec(x)] ELSE expiry)

(***************************************************************************)
(* The refresher returns (or throws): finalizeSelectedToken goes on.       *)
(***************************************************************************)
RefreshReturns(c, ok) ==
  /\ Quiet
  /\ call[c].st = "refresh"
  /\ expiry' = IF ok THEN [expiry EXCEPT ![call[c].ret] =
                              call[c].nowSeconds + ExpiresInSec]
               ELSE expiry
  /\ sessionBindings' =
       BindSession(sessionBindings, call[c].seen.sk, call[c].ret, now)
  /\ lastKeyed' =
       Returned(lastKeyed, call[c].seen.sk, call[c].ret, call[c].seen.at)
  /\ call' = [call EXCEPT ![c] =
                [st |-> "returned", ret |-> call[c].ret, seen |-> call[c].seen]]
  /\ UNCHANGED <<now, store, tokens, cooldowns, currentIndex, nsel, plain, marks,
                 client, fb, sse, syn, obs, fn, mon>>

(***************************************************************************)
(* markAsRateLimited, markAsForbidden.                                     *)
(***************************************************************************)
MarkAsRateLimited(key) ==
  /\ Quiet
  /\ marks < MaxMarks
  /\ marks' = marks + 1
  /\ cooldowns' = MarkInCooldown(cooldowns, tokens, key, now, rateLimitCooldownMs)
  /\ plain' = FALSE
  /\ nsel' = 0
  /\ UNCHANGED <<now, store, tokens, expiry, sessionBindings, currentIndex,
                 call, lastKeyed, req, client, fb, sse, syn, obs, fn, mon>>

MarkAsForbidden(key) ==
  /\ Quiet
  /\ marks < MaxMarks
  /\ marks' = marks + 1
  /\ cooldowns' = MarkInCooldown(cooldowns, tokens, key, now, forbiddenCooldownMs)
  /\ plain' = FALSE
  /\ nsel' = 0
  /\ UNCHANGED <<now, store, tokens, expiry, sessionBindings, currentIndex,
                 call, lastKeyed, req, client, fb, sse, syn, obs, fn, mon>>

(***************************************************************************)
(* Callers other than the modelled request: they call getNextToken with    *)
(* any arguments and take the result.                                      *)
(***************************************************************************)
EnvGetNextToken ==
  \E c \in EnvCallers, sk \in SessionKeys \cup {NoKey}, excl \in SUBSET Accounts,
     loadOk \in BOOLEAN :
    GetNextToken(c, sk, excl, loadOk) /\ UNCHANGED req

EnvRefreshReturns ==
  \E c \in EnvCallers, ok \in BOOLEAN : RefreshReturns(c, ok) /\ UNCHANGED req

EnvTakesToken ==
  \E c \in EnvCallers :
    /\ call[c].st = "returned"
    /\ call' = [call EXCEPT ![c] = IdleCall]
    /\ UNCHANGED <<now, store, tokens, expiry, cooldowns, sessionBindings,
                   currentIndex, lastKeyed, nsel, plain, marks, req, client, fb, sse, syn, obs, fn, mon>>

PoolKeys == Range(tokens) \cup {EmailOf(a) : a \in Range(tokens)}

EnvMarkAsRateLimited == \E key \in PoolKeys : MarkAsRateLimited(key)

EnvMarkAsForbidden == \E key \in PoolKeys : MarkAsForbidden(key)

EnvStoreAdd == \E a \in Accounts : StoreAdd(a)

(***************************************************************************)
(* A request arrives at one of the handlers: handleChatCompletions,        *)
(* handleAnthropicMessages, handleGeminiGenerateContent,                   *)
(* handleGeminiStreamGenerateContent.  The Gemini handlers pass no session *)
(* key.                                                                    *)
(***************************************************************************)
ReqStart ==
  \E h \in Handlers, st \in BOOLEAN, sk \in SessionKeys \cup {NoKey} :
    /\ Quiet
    /\ req.pc = "idle"
    /\ h = "gemini" => ~st /\ sk = NoKey
    /\ h = "geminiStream" => st /\ sk = NoKey
    /\ req' = [IdleReq EXCEPT !.pc = "select", !.handler = h, !.stream = st,
                              !.sk = sk]
    /\ UNCHANGED <<now, store, tokens, expiry, cooldowns, sessionBindings,
                   currentIndex, call, lastKeyed, nsel, plain, marks, client, fb, sse, syn, obs, fn, mon>>

(***************************************************************************)
(* Top of the retry loop: getNextToken({sessionKey, excludeAccountIds}).   *)
(***************************************************************************)
ReqSelect ==
  \E loadOk \in BOOLEAN :
    /\ req.pc = "select"
    /\ GetNextToken("req", req.sk, req.attempted, loadOk)
    /\ req' = [req EXCEPT !.pc = "token"]

ReqRefreshReturns ==
  \E ok \in BOOLEAN : RefreshReturns("req", ok) /\ UNCHANGED req

StageSub(r) == IF r.stream THEN "stream" ELSE "direct"

(***************************************************************************)
(* getNextToken has returned: no token throws, otherwise the account is    *)
(* added to attemptedAccountIds and the upstream call is issued.           *)
(***************************************************************************)
ReqTakesToken ==
  /\ req.pc = "token"
  /\ call["req"].st = "returned"
  /\ call' = [call EXCEPT !["req"] = IdleCall]
  /\ IF call["req"].ret = None
       THEN req' = [req EXCEPT !.pc = "done", !.result = "error",
                               !.thrown = MNoAccounts]
       ELSE req' = [req EXCEPT
                      !.pc = "primary",
                      !.sub = StageSub(req),
                      !.out = None,
                      !.model = ClientModel,
                      !.project =
                        BodyProject(req.handler,
                          ProjectIdOrEmpty(SanitizedProjectId(
                            StoreProjectId(call["req"].ret)))),
                      !.token = call["req"].ret,
                      !.attempted = @ \cup {call["req"].ret},
                      !.sel = Append(@, call["req"].ret)]
  /\ UNCHANGED <<now, store, tokens, expiry, cooldowns, sessionBindings,
                 currentIndex, lastKeyed, nsel, plain, marks, client, fb, sse, syn, obs, fn, mon>>

(***************************************************************************)
(* What the awaited upstream call can do.                                  *)
(***************************************************************************)
Outcomes(sub) ==
  CASE sub = "direct" -> {"ok", "empty"} \cup UpstreamErrors
    [] sub = "collect" -> {"ok", MEmptyStream} \cup UpstreamErrors
    [] OTHER -> {"ok"} \cup UpstreamErrors

(***************************************************************************)
(* End of the catch block: lastError, the classification, the mark, and    *)
(* the next round of the loop, or the throw after the last one.            *)
(***************************************************************************)
CooldownForRateFirst(msg) ==
  LET decision == ClassifyUpstreamError(msg) IN
  IF decision.retry /\ Includes(msg, "quota") THEN rateLimitCooldownMs
  ELSE IF decision.retry /\ decision.markAsForbidden THEN forbiddenCooldownMs
  ELSE 0

CooldownFor(msg) ==
  LET decision == ClassifyUpstreamError(msg) IN
  IF decision.retry /\ decision.markAsForbidden THEN forbiddenCooldownMs
  ELSE IF decision.retry /\ decision.markAsRateLimited THEN rateLimitCooldownMs
  ELSE 0

AttemptFailsSameRound(r, e) ==
  /\ cooldowns' = IF CooldownFor(e) # 0
                    THEN MarkInCooldown(cooldowns, tokens, r.token, now,
                                        CooldownFor(e))
                    ELSE cooldowns
  /\ plain' = IF CooldownFor(e) # 0 THEN FALSE ELSE plain
  /\ nsel' = IF CooldownFor(e) # 0 THEN 0 ELSE nsel
  /\ req' = [r EXCEPT !.lastError = e, !.pc = "select"]

AttemptFails(r, e) ==
  LET last == r.i + 1 >= maxRetries IN
  /\ cooldowns' = IF CooldownFor(e) # 0
                    THEN MarkInCooldown(cooldowns, tokens, r.token, now,
                                        CooldownFor(e))
                    ELSE cooldowns
  /\ plain' = IF CooldownFor(e) # 0 THEN FALSE ELSE plain
  /\ nsel' = IF CooldownFor(e) # 0 THEN 0 ELSE nsel
  /\ req' = [r EXCEPT
               !.lastError = e,
               !.i = @ + 1,
               !.pc = IF last THEN "done" ELSE "select",
               !.result = IF last THEN "error" ELSE None,
               !.thrown = IF last THEN e ELSE None]

(***************************************************************************)
(* The catch blocks of the handlers, in their order: the unary fallback of *)
(* a failed OpenAI stream call, the retry without project, the Anthropic   *)
(* downgrade to gemini-2.5-flash, the classification.                      *)
(***************************************************************************)
UpstreamFails(r, e) ==
  IF r.pc = "primary" /\ r.handler = "openai" /\ r.sub = "stream"
    THEN /\ req' = [r EXCEPT !.pc = "unaryfb", !.sub = "direct"]
         /\ UNCHANGED <<cooldowns, plain, nsel>>
  ELSE IF r.pc \in {"primary", "unaryfb"} /\ IsProjectContextError(e)
    THEN /\ req' = [r EXCEPT !.pc = "project", !.sub = StageSub(r),
                             !.project = BodyProject(r.handler, "")]
         /\ UNCHANGED <<cooldowns, plain, nsel>>
  ELSE IF /\ r.pc \in {"primary", "unaryfb", "project"}
          /\ r.handler = "anthropic"
          /\ IsQuotaExhaustedError(e)
    THEN /\ req' = [r EXCEPT !.pc = "quota", !.sub = StageSub(r),
                             !.model = FallbackModel,
                             !.project =
                               BodyProject(r.handler,
                                 ProjectIdOrEmpty(SanitizedProjectId(
                                   StoreProjectId(r.token))))]
         /\ UNCHANGED <<cooldowns, plain, nsel>>
  ELSE AttemptFails(r, e)

(***************************************************************************)
(* The awaited upstream call settles.                                      *)
(***************************************************************************)
ReqUpstream ==
  \E o \in Outcomes(req.sub) :
    LET r == [req EXCEPT !.out = o,
                         !.outs[req.token] =
                           IF @ \in {None, o} THEN o ELSE "mixed"] IN
    /\ Quiet
    /\ req.pc \in Stages
    /\ IF o = "ok" /\ r.sub = "fbstream"
         THEN /\ req' = [r EXCEPT !.sub = "collect"]
              /\ UNCHANGED <<cooldowns, plain, nsel>>
       ELSE IF o = "ok"
         THEN /\ req' = [r EXCEPT !.pc = "done", !.result = "ok",
                                  !.respModel = ResponseModel(r)]
              /\ UNCHANGED <<cooldowns, plain, nsel>>
       ELSE IF o = "empty"
         THEN /\ req' = [r EXCEPT !.sub = "fbstream"]
              /\ UNCHANGED <<cooldowns, plain, nsel>>
       ELSE UpstreamFails(r, o)
    /\ UNCHANGED <<now, store, tokens, expiry, sessionBindings, currentIndex,
                   call, lastKeyed, marks, client, fb, sse, syn, obs, fn, mon>>

PoolNext ==
  \/ Tick
  \/ EnvStoreAdd
  \/ EnvGetNextToken
  \/ EnvRefreshReturns
  \/ EnvTakesToken
  \/ EnvMarkAsRateLimited
  \/ EnvMarkAsForbidden

SpecPool == Init /\ [][PoolNext]_vars

(***************************************************************************)
(* One request through its retry loop, while the clock runs.               *)
(***************************************************************************)
Running == req.pc # "done"

RetryNext ==
  \/ ReqStart
  \/ ReqSelect
  \/ ReqRefreshReturns
  \/ ReqTakesToken
  \/ ReqUpstream
  \/ Running /\ Tick

SpecRetry == Init /\ [][RetryNext]_vars

(***************************************************************************)
(* The same request when every awaited call of the handler returns: the    *)
(* token selection, the refresh inside it and the upstream calls.  The     *)
(* request starts at any time of the clock.                                *)
(***************************************************************************)
TerminationNext ==
  \/ req.pc = "idle" /\ Tick
  \/ ReqStart
  \/ ReqSelect
  \/ ReqRefreshReturns
  \/ ReqTakesToken
  \/ ReqUpstream

SpecTermination ==
  /\ Init
  /\ [][TerminationNext]_vars
  /\ WF_vars(ReqSelect)
  /\ WF_vars(ReqRefreshReturns)
  /\ WF_vars(ReqTakesToken)
  /\ WF_vars(ReqUpstream)

(***************************************************************************)
(* Concurrent callers of getNextToken.  A call that finds the pool empty   *)
(* waits for loadAccounts; the other calls run while it waits, and while a *)
(* selected token is being refreshed.                                      *)
(***************************************************************************)
ConcGetNextToken ==
  \E c \in ConcCallers, sk \in SessionKeys \cup {NoKey}, excl \in ConcExclusions :
    /\ UNCHANGED req
    /\ IF Len(tokens) = 0
         THEN /\ Quiet
              /\ call[c].st = "idle"
              /\ call' = [call EXCEPT ![c] =
                            [st |-> "loading", sk |-> sk, excl |-> excl]]
              /\ UNCHANGED <<now, store, tokens, expiry, cooldowns,
                             sessionBindings, currentIndex, lastKeyed, nsel,
                             plain, marks, client, fb, sse, syn, obs, fn, mon>>
         ELSE GetNextToken(c, sk, excl, TRUE)

(***************************************************************************)
(* loadAccounts returns to a waiting call: the stored accounts are in the  *)
(* pool unless the load failed.  A load onto a pool that another call has  *)
(* filled meanwhile puts the stored token data over the in-memory one.     *)
(***************************************************************************)
ConcLoadAccountsReturns ==
  \E c \in ConcCallers, loadOk \in BOOLEAN :
    \E exp \in IF loadOk
                 THEN {[x \in Accounts |-> StoreExpirySec(x)]}
                        \cup (IF Len(tokens) = 0 THEN {} ELSE {expiry})
                 ELSE {expiry} :
      /\ call[c].st = "loading"
      /\ SelectToken(c, call[c].sk, call[c].excl,
                     IF loadOk THEN LoadedTokens(tokens, store) ELSE tokens,
                     exp)
      /\ UNCHANGED req

ConcRefreshReturns ==
  \E c \in ConcCallers, ok \in BOOLEAN : RefreshReturns(c, ok) /\ UNCHANGED req

ConcTakesToken ==
  \E c \in ConcCallers :
    /\ call[c].st = "returned"
    /\ call' = [call EXCEPT ![c] = IdleCall]
    /\ UNCHANGED <<now, store, tokens, expiry, cooldowns, sessionBindings,
                   currentIndex, lastKeyed, nsel, plain, marks, req, client, fb, sse, syn, obs, fn, mon>>

ConcNext ==
  \/ Tick
  \/ EnvStoreAdd
  \/ ConcGetNextToken
  \/ ConcLoadAccountsReturns
  \/ ConcRefreshReturns
  \/ ConcTakesToken

SpecConc == Init /\ [][ConcNext]_vars

(***************************************************************************)
(* GeminiClient.requestWithEndpointFailover.  What one axios.post to a     *)
(* base URL can end with: a response, an axios error without a response    *)
(* (status 0 here), an axios error with a status and a response body whose *)
(* error.message is absent, blank or a text, or an error that is not an    *)
(* axios error.                                                            *)
(***************************************************************************)
Statuses == {400, 401, 403, 408, 429, 500, 503}

AxiosMessage(status) ==
  IF status = 0 THEN "timeout of 60000ms exceeded"
  ELSE "Request failed with status code " \o ToString(status)

UpstreamMessage(status) == "upstream error " \o ToString(status)

EndpointOutcomes ==
  {[kind |-> "ok", status |-> 200, message |-> None, upstream |-> None]}
  \cup {[kind |-> "axios", status |-> 0, message |-> AxiosMessage(0),
         upstream |-> None]}
  \cup UNION {{[kind |-> "axios", status |-> status,
                  message |-> AxiosMessage(status), upstream |-> u] :
                   u \in {None, " ", UpstreamMessage(status)}} :
                status \in Statuses}
  \cup {[kind |-> "other", status |-> 0, message |-> "not an axios error",
         upstream |-> None]}

ShouldSwitchEndpointAlways(error) == TRUE

ShouldSwitchEndpointOnError(error) ==
  IF error.kind # "axios" THEN FALSE
  ELSE IF error.status = 0 THEN TRUE
  ELSE IF error.status = 401 \/ error.status = 403 THEN FALSE
  ELSE error.status = 408 \/ error.status = 429 \/ error.status >= 500

ExtractAxiosErrorMessage(error) ==
  IF error.upstream \in {None, " "} THEN None ELSE error.upstream

HandleAxiosError(error) ==
  IF error.kind = "axios"
    THEN IF ExtractAxiosErrorMessage(error) # None
           THEN ExtractAxiosErrorMessage(error)
           ELSE error.message
    ELSE error.message

(***************************************************************************)
(* A client call starts: getInternalBaseUrls gives the list of base URLs.  *)
(***************************************************************************)
ClientCall ==
  \E n \in 1..MaxEndpoints :
    /\ client.pc = "idle"
    /\ client' = [IdleClient EXCEPT !.pc = "trying", !.n = n]
    /\ UNCHANGED <<now, store, tokens, expiry, cooldowns, sessionBindings,
                   currentIndex, call, lastKeyed, nsel, plain, marks, req, fb, sse, syn, obs, fn, mon>>

(***************************************************************************)
(* The axios.post to baseUrls[index] settles.                              *)
(***************************************************************************)
ClientEndpointSettles ==
  \E o \in EndpointOutcomes :
    LET hasNextEndpoint == client.index < client.n - 1 IN
    /\ client.pc = "trying"
    /\ client' =
         IF o.kind = "ok"
           THEN [client EXCEPT !.pc = "done", !.tried = Append(@, o),
                               !.result = "ok"]
         ELSE IF ~hasNextEndpoint \/ ~ShouldSwitchEndpointOnError(o)
           THEN [client EXCEPT !.pc = "done", !.tried = Append(@, o),
                               !.result = "error",
                               !.thrown = HandleAxiosError(o)]
         ELSE [client EXCEPT !.tried = Append(@, o), !.index = @ + 1]
    /\ UNCHANGED <<now, store, tokens, expiry, cooldowns, sessionBindings,
                   currentIndex, call, lastKeyed, nsel, plain, marks, req, fb, sse, syn, obs, fn, mon>>

ClientNext == ClientCall \/ ClientEndpointSettles

SpecClient == Init /\ [][ClientNext]_vars

(***************************************************************************)
(* generateInternalWithStreamFallback(body, accessToken): the unary call   *)
(* is issued.                                                              *)
(***************************************************************************)
FbCall ==
  \E args \in FallbackCalls :
    /\ fb.pc = "idle"
    /\ fb' = [IdleFb EXCEPT !.pc = "direct", !.body = args[1],
                            !.token = args[2]]
    /\ UNCHANGED <<now, store, tokens, expiry, cooldowns, sessionBindings,
                   currentIndex, call, lastKeyed, nsel, plain, marks, req,
                   client, sse, syn, obs, fn, mon>>

(***************************************************************************)
(* generateInternal settles: an error propagates, a usable response is     *)
(* returned, anything else issues the streaming call.                      *)
(***************************************************************************)
FbDirectSettles ==
  \E ok \in BOOLEAN, o \in DirectResponses, e \in UpstreamErrors :
    /\ fb.pc = "direct"
    /\ fb' = IF ~ok
               THEN [fb EXCEPT !.pc = "done", !.thrown = e]
             ELSE IF HasUsableGeminiCandidate(o)
               THEN [fb EXCEPT !.pc = "done", !.direct = o, !.result = o]
             ELSE [fb EXCEPT !.pc = "stream", !.direct = o,
                             !.calls = Append(@, <<fb.body, fb.token>>)]
    /\ UNCHANGED <<now, store, tokens, expiry, cooldowns, sessionBindings,
                   currentIndex, call, lastKeyed, nsel, plain, marks, req,
                   client, sse, syn, obs, fn, mon>>

(***************************************************************************)
(* streamGenerateInternal settles: with the stream, or with an error.      *)
(***************************************************************************)
FbStreamSettles ==
  \E o \in {"ok"} \cup UpstreamErrors :
    /\ fb.pc = "stream"
    /\ fb' = IF o = "ok" THEN [fb EXCEPT !.pc = "collect"]
             ELSE [fb EXCEPT !.pc = "done", !.thrown = o]
    /\ UNCHANGED <<now, store, tokens, expiry, cooldowns, sessionBindings,
                   currentIndex, call, lastKeyed, nsel, plain, marks, req,
                   client, sse, syn, obs, fn, mon>>

(***************************************************************************)
(* A 'data' event.  The chunk ends the begun line if there is one, brings  *)
(* whole lines, and may begin a line it does not end; the lines before the *)
(* last newline are processed, the rest stays in the buffer.               *)
(***************************************************************************)
FbStreamData ==
  \E k \in 0..MaxChunkLines, begun \in Lines \cup {NoLine}, ends \in BOOLEAN :
    \E whole \in [1..k -> Lines] :
      LET pending == IF fb.buffer # NoLine /\ ends THEN <<fb.buffer>> ELSE <<>>
          lines == pending \o whole
          c == CollectLines(fb, lines)
      IN
      /\ fb.pc = "collect"
      /\ fb.buffer = NoLine => ends
      /\ ~ends => k = 0 /\ begun = NoLine
      /\ fb.n + k + (IF begun = NoLine THEN 0 ELSE 1) <= MaxLines
      /\ fb' = [c EXCEPT !.receivedData = TRUE,
                         !.buffer = IF ends THEN begun ELSE fb.buffer,
                         !.sent = @ \o lines,
                         !.n = @ + k + (IF begun = NoLine THEN 0 ELSE 1)]
      /\ UNCHANGED <<now, store, tokens, expiry, cooldowns, sessionBindings,
                     currentIndex, call, lastKeyed, nsel, plain, marks, req,
                     client, sse, syn, obs, fn, mon>>

(***************************************************************************)
(* The 'end' event.                                                        *)
(***************************************************************************)
FbStreamEnd ==
  /\ fb.pc = "collect"
  /\ fb' = IF ~fb.receivedData
             THEN [fb EXCEPT !.pc = "done", !.thrown = MEmptyStream]
           ELSE [fb EXCEPT !.pc = "done", !.result = CollectedResponse(fb)]
  /\ UNCHANGED <<now, store, tokens, expiry, cooldowns, sessionBindings,
                 currentIndex, call, lastKeyed, nsel, plain, marks, req,
                 client, sse, syn, obs, fn, mon>>

(***************************************************************************)
(* The 'error' event.                                                      *)
(***************************************************************************)
FbStreamError ==
  \E e \in UpstreamErrors :
    /\ fb.pc = "collect"
    /\ fb' = [fb EXCEPT !.pc = "done", !.thrown = e]
    /\ UNCHANGED <<now, store, tokens, expiry, cooldowns, sessionBindings,
                   currentIndex, call, lastKeyed, nsel, plain, marks, req,
                   client, sse, syn, obs, fn, mon>>

FallbackNext ==
  \/ FbCall
  \/ FbDirectSettles
  \/ FbStreamSettles
  \/ FbStreamData
  \/ FbStreamEnd
  \/ FbStreamError

SpecFallback == Init /\ [][FallbackNext]_vars

(***************************************************************************)
(* The Observable is subscribed: streamId and created are drawn and the    *)
(* listeners attached.                                                     *)
(***************************************************************************)
SseSubscribe ==
  \E identity \in StreamIdentities :
    /\ sse.pc = "idle"
    /\ sse' = [IdleSse EXCEPT !.pc = "open", !.id = identity[1],
                              !.created = identity[2]]
    /\ UNCHANGED <<now, store, tokens, expiry, cooldowns, sessionBindings,
                   currentIndex, call, lastKeyed, nsel, plain, marks, req,
                   client, fb, syn, obs, fn, mon>>

(***************************************************************************)
(* A 'data' event of the upstream stream.                                  *)
(***************************************************************************)
SseData ==
  \E k \in 0..MaxChunkLines, begun \in StreamLines \cup {NoStreamLine},
     ends \in BOOLEAN :
    \E whole \in [1..k -> StreamLines] :
      LET pending == IF sse.buffer # NoStreamLine /\ ends
                       THEN <<sse.buffer>> ELSE <<>>
          lines == pending \o whole
          begins == IF begun = NoStreamLine THEN 0 ELSE 1
      IN
      /\ sse.pc = "open"
      /\ sse.buffer = NoStreamLine => ends
      /\ ~ends => k = 0 /\ begun = NoStreamLine
      /\ sse.n + k + begins <= MaxLines
      /\ sse' = [ProcessStreamLines(sse, lines) EXCEPT
                   !.buffer = IF ends THEN begun ELSE sse.buffer,
                   !.sent = @ \o lines,
                   !.n = @ + k + begins]
      /\ UNCHANGED <<now, store, tokens, expiry, cooldowns, sessionBindings,
                     currentIndex, call, lastKeyed, nsel, plain, marks, req,
                     client, fb, syn, obs, fn, mon>>

(***************************************************************************)
(* The 'end' event.                                                        *)
(***************************************************************************)
SseEnd ==
  LET padded == IF ~sse.hasEmittedChunk
                  THEN PushChunk(sse, Chunk(sse.id, sse.created, "content",
                                            "", None))
                ELSE sse
      done == IF ~padded.hasSentDone
                THEN [SubscriberNext(padded, DoneItem) EXCEPT
                        !.hasSentDone = TRUE]
              ELSE padded
  IN
  /\ sse.pc = "open"
  /\ sse' = [SubscriberComplete(done) EXCEPT !.pc = "over",
                                             !.upstream = "end"]
  /\ UNCHANGED <<now, store, tokens, expiry, cooldowns, sessionBindings,
                 currentIndex, call, lastKeyed, nsel, plain, marks, req,
                 client, fb, syn, obs, fn, mon>>

(***************************************************************************)
(* The 'error' event.                                                      *)
(***************************************************************************)
SseError ==
  \E e \in UpstreamErrors :
    /\ sse.pc = "open"
    /\ sse' = [SubscriberError(sse, e) EXCEPT !.pc = "over",
                                              !.upstream = "error"]
    /\ UNCHANGED <<now, store, tokens, expiry, cooldowns, sessionBindings,
                   currentIndex, call, lastKeyed, nsel, plain, marks, req,
                   client, fb, syn, obs, fn, mon>>

StreamNext ==
  \/ SseSubscribe
  \/ SseData
  \/ SseEnd
  \/ SseError

SpecStream == Init /\ [][StreamNext]_vars

(***************************************************************************)
(* The client's connection closes while the response is streamed: the      *)
(* controller's 'close' listener unsubscribes.  The Observable has no      *)
(* teardown, so the subscriber is closed and nothing else changes: the     *)
(* listeners stay on the upstream stream.                                  *)
(***************************************************************************)
SseClientDisconnects ==
  /\ sse.pc = "open"
  /\ ~sse.unsubscribed
  /\ sse' = [sse EXCEPT !.closed = TRUE, !.unsubscribed = TRUE]
  /\ UNCHANGED <<now, store, tokens, expiry, cooldowns, sessionBindings,
                 currentIndex, call, lastKeyed, nsel, plain, marks, req,
                 client, fb, syn, obs, fn, mon>>

DisconnectNext == StreamNext \/ SseClientDisconnects

SpecDisconnect == Init /\ [][DisconnectNext]_vars

(***************************************************************************)
(* request.stream: streamGenerateInternal is called with the token of the  *)
(* attempt.                                                                *)
(***************************************************************************)
SynStreamCall ==
  \E token \in {"tokenA", "tokenB"} :
    /\ syn.pc = "idle"
    /\ syn' = [IdleSyn EXCEPT !.pc = "stream", !.token = token,
                              !.calls = <<<<"stream", token>>>>]
    /\ UNCHANGED <<now, store, tokens, expiry, cooldowns, sessionBindings,
                   currentIndex, call, lastKeyed, nsel, plain, marks, req,
                   client, fb, sse, obs, fn, mon>>

(***************************************************************************)
(* It settles: the stream goes to processStreamResponse, an error to the   *)
(* unary call of generateInternalWithStreamFallback.                       *)
(***************************************************************************)
SynStreamSettles ==
  \E ok \in BOOLEAN :
    /\ syn.pc = "stream"
    /\ syn' = IF ok THEN [syn EXCEPT !.pc = "done", !.returned = "stream"]
              ELSE [syn EXCEPT !.pc = "unary",
                               !.calls = Append(@, <<"unary", syn.token>>)]
    /\ UNCHANGED <<now, store, tokens, expiry, cooldowns, sessionBindings,
                   currentIndex, call, lastKeyed, nsel, plain, marks, req,
                   client, fb, sse, obs, fn, mon>>

(***************************************************************************)
(* The unary call settles: an error leaves the try block, a response is    *)
(* converted and wrapped by createSyntheticOpenAIStream.                   *)
(***************************************************************************)
SynUnarySettles ==
  \E ok \in BOOLEAN, e \in UpstreamErrors, length \in 0..MaxContent,
     finishReason \in FinishReasons :
    /\ syn.pc = "unary"
    /\ ~ok => length = 0 /\ finishReason = None
    /\ syn' = IF ~ok THEN [syn EXCEPT !.pc = "done", !.thrown = e]
              ELSE [syn EXCEPT
                      !.pc = "synthetic",
                      !.returned = "synthetic",
                      !.response = [content |-> Content(length),
                                    contentIsString |-> length > 0,
                                    finish_reason |-> finishReason]]
    /\ UNCHANGED <<now, store, tokens, expiry, cooldowns, sessionBindings,
                   currentIndex, call, lastKeyed, nsel, plain, marks, req,
                   client, fb, sse, obs, fn, mon>>

(***************************************************************************)
(* The synthetic Observable is subscribed: it writes all its chunks, then  *)
(* [DONE], and completes.                                                  *)
(***************************************************************************)
SynSubscribe ==
  /\ syn.pc = "synthetic"
  /\ syn' = [syn EXCEPT !.pc = "done",
                        !.out = CreateSyntheticOpenAIStream(syn.response),
                        !.term = <<"complete">>]
  /\ UNCHANGED <<now, store, tokens, expiry, cooldowns, sessionBindings,
                 currentIndex, call, lastKeyed, nsel, plain, marks, req,
                 client, fb, sse, obs, fn, mon>>

SyntheticNext ==
  \/ SynStreamCall
  \/ SynStreamSettles
  \/ SynUnarySettles
  \/ SynSubscribe

SpecSynthetic == Init /\ [][SyntheticNext]_vars

(***************************************************************************)
(* The Observable of processAnthropicInternalStream or passthroughSseStream *)
(* is subscribed.                                                          *)
(***************************************************************************)
ObsSubscribe ==
  \E kind \in ObserverKinds :
    /\ obs.pc = "idle"
    /\ obs' = [IdleObs EXCEPT !.pc = "open", !.kind = kind]
    /\ UNCHANGED <<now, store, tokens, expiry, cooldowns, sessionBindings,
                   currentIndex, call, lastKeyed, nsel, plain, marks, req,
                   client, fb, sse, syn, fn, mon>>

(***************************************************************************)
(* A 'data' event.                                                         *)
(***************************************************************************)
ObsData ==
  \E k \in 0..MaxChunkLines, begun \in ObserverLines \cup {"none"},
     ends \in BOOLEAN :
    \E whole \in [1..k -> ObserverLines] :
      LET pending == IF obs.buffer # "none" /\ ends
                       THEN <<obs.buffer>> ELSE <<>>
          lines == pending \o whole
          begins == IF begun = "none" THEN 0 ELSE 1
      IN
      /\ obs.pc = "open"
      /\ obs.events < MaxLines
      /\ obs.buffer = "none" => ends
      /\ ~ends => k = 0 /\ begun = "none"
      /\ obs.n + k + begins <= MaxLines
      /\ obs' = [ObserverData(obs, lines) EXCEPT
                   !.buffer = IF ends THEN begun ELSE obs.buffer,
                   !.events = @ + 1,
                   !.sent = @ \o lines,
                   !.n = @ + k + begins]
      /\ UNCHANGED <<now, store, tokens, expiry, cooldowns, sessionBindings,
                     currentIndex, call, lastKeyed, nsel, plain, marks, req,
                     client, fb, sse, syn, fn, mon>>

(***************************************************************************)
(* The 'end' event.                                                        *)
(***************************************************************************)
ObsEnd ==
  /\ obs.pc = "open"
  /\ obs' = [ObserverEnd(obs) EXCEPT !.pc = "over", !.upstream = "end"]
  /\ UNCHANGED <<now, store, tokens, expiry, cooldowns, sessionBindings,
                 currentIndex, call, lastKeyed, nsel, plain, marks, req,
                 client, fb, sse, syn, fn, mon>>

(***************************************************************************)
(* The 'error' event.                                                      *)
(***************************************************************************)
ObsError ==
  \E e \in UpstreamErrors :
    /\ obs.pc = "open"
    /\ obs' = [ObserverError(obs, e) EXCEPT !.pc = "over",
                                            !.upstream = "error",
                                            !.error = e]
    /\ UNCHANGED <<now, store, tokens, expiry, cooldowns, sessionBindings,
                   currentIndex, call, lastKeyed, nsel, plain, marks, req,
                   client, fb, sse, syn, fn, mon>>

ObserverNext ==
  \/ ObsSubscribe
  \/ ObsData
  \/ ObsEnd
  \/ ObsError

SpecObserver == Init /\ [][ObserverNext]_vars

(***************************************************************************)
(* A handler of the orchestrator throws and the frontend's catch block     *)
(* answers.                                                                *)
(***************************************************************************)
FrontendCatches ==
  /\ fn.op = "idle"
  /\ \E frontend \in Frontends, message \in Messages :
    /\ fn' = [op |-> "catch", frontend |-> frontend, message |-> message,
              status |-> FrontendStatus(frontend, message)]
    /\ UNCHANGED <<now, store, tokens, expiry, cooldowns, sessionBindings,
                   currentIndex, call, lastKeyed, nsel, plain, marks, req,
                   client, fb, sse, syn, obs, mon>>

FrontendNext == FrontendCatches

SpecFrontend == Init /\ [][FrontendNext]_vars

(***************************************************************************)
(* The guard decides on one request.                                       *)
(***************************************************************************)
GuardCanActivate ==
  /\ fn.op = "idle"
  /\ \E apiKey \in ApiKeys,
     authorization \in HeaderArrays(AuthorizationValues),
     xApiKey \in HeaderArrays(KeyValues),
     xGoogApiKey \in HeaderArrays(KeyValues) :
    LET headers == [authorization |-> authorization, xApiKey |-> xApiKey,
                    xGoogApiKey |-> xGoogApiKey]
    IN /\ fn' = [op |-> "guard", apiKey |-> apiKey, headers |-> headers,
                 allowed |-> CanActivate(apiKey, headers)]
       /\ UNCHANGED <<now, store, tokens, expiry, cooldowns, sessionBindings,
                      currentIndex, call, lastKeyed, nsel, plain, marks,
                      req, client, fb, sse, syn, obs, mon>>

GuardNext == GuardCanActivate

SpecGuard == Init /\ [][GuardNext]_vars

(***************************************************************************)
(* handleGeminiGenerateContent normalizes the upstream response and the    *)
(* Gemini controller normalizes the service's result again before sending. *)
(***************************************************************************)
GeminiGenerateContentAnswers ==
  /\ fn.op = "idle"
  /\ \E response \in UpstreamGeminiResponses :
    LET result == NormalizeGeminiGenerateResponse(response)
    IN /\ fn' = [op |-> "normalize", response |-> response,
                 result |-> result,
                 sent |-> NormalizeGeminiGenerateResponse(result)]
       /\ UNCHANGED <<now, store, tokens, expiry, cooldowns, sessionBindings,
                      currentIndex, call, lastKeyed, nsel, plain, marks,
                      req, client, fb, sse, syn, obs, mon>>

NormalizeNext == GeminiGenerateContentAnswers

SpecNormalize == Init /\ [][NormalizeNext]_vars

(***************************************************************************)
(* A handler maps the model of one request.                                *)
(***************************************************************************)
MapModelCall ==
  /\ fn.op = "idle"
  /\ \E model \in RequestedModels, custom_mapping \in Mappings,
        anthropic_mapping \in Mappings :
    /\ fn' = [op |-> "route", model |-> model,
              custom_mapping |-> custom_mapping,
              anthropic_mapping |-> anthropic_mapping,
              route |-> MapModel(model, custom_mapping, anthropic_mapping)]
    /\ UNCHANGED <<now, store, tokens, expiry, cooldowns, sessionBindings,
                   currentIndex, call, lastKeyed, nsel, plain, marks, req,
                   client, fb, sse, syn, obs, mon>>

RouteNext == MapModelCall

SpecRoute == Init /\ [][RouteNext]_vars

(***************************************************************************)
(* processAnthropicInternalStream, the 'data' handler's loop body: the     *)
(* parts of one line that are handed to processor.process.  The handler    *)
(* reads candidates[0].content.parts[0].                                   *)
(***************************************************************************)
AnthropicProcessCalls(line) ==
  IF line.kind # "data" THEN <<>>
  ELSE LET parts == line.frame.parts IN
       IF parts.isArray /\ Len(parts.items) > 0
            /\ IsGeminiPart(parts.items[1])
         THEN <<parts.items[1]>>
       ELSE <<>>

(***************************************************************************)
(* One subscription of the Anthropic mapper and the lines it is handed.    *)
(*   lines     : the complete lines of the 'data' events so far            *)
(*   processed : the arguments of the processor.process calls so far       *)
(***************************************************************************)
AnthropicSubscribe ==
  /\ fn.op = "idle"
  /\ fn' = [op |-> "mapper", lines |-> <<>>, processed |-> <<>>]
  /\ UNCHANGED <<now, store, tokens, expiry, cooldowns, sessionBindings,
                 currentIndex, call, lastKeyed, nsel, plain, marks, req,
                 client, fb, sse, syn, obs, mon>>

AnthropicDataLine ==
  /\ fn.op = "mapper"
  /\ Len(fn.lines) < MaxLines
  /\ \E line \in Lines :
       fn' = [fn EXCEPT !.lines = Append(@, line),
                        !.processed = @ \o AnthropicProcessCalls(line)]
  /\ UNCHANGED <<now, store, tokens, expiry, cooldowns, sessionBindings,
                 currentIndex, call, lastKeyed, nsel, plain, marks, req,
                 client, fb, sse, syn, obs, mon>>

MapperNext == AnthropicSubscribe \/ AnthropicDataLine

SpecMapper == Init /\ [][MapperNext]_vars

(***************************************************************************)
(* The account store gains and loses accounts while the pool is loaded,    *)
(* and loadAccounts is called again.  loadAccounts sets the entry of each  *)
(* stored account and removes none.                                        *)
(***************************************************************************)
GetAccountCount(pool) == Len(pool)

StorePut(a) ==
  /\ Quiet
  /\ a \notin store
  /\ store' = store \cup {a}
  /\ UNCHANGED <<now, tokens, expiry, cooldowns, sessionBindings,
                 currentIndex, call, lastKeyed, nsel, plain, marks, req,
                 client, fb, sse, syn, obs, fn, mon>>

StoreDelete(a) ==
  /\ Quiet
  /\ a \in store
  /\ store' = store \ {a}
  /\ UNCHANGED <<now, tokens, expiry, cooldowns, sessionBindings,
                 currentIndex, call, lastKeyed, nsel, plain, marks, req,
                 client, fb, sse, syn, obs, fn, mon>>

LoadAccounts ==
  /\ Quiet
  /\ tokens' = LoadedTokens(tokens, store)
  /\ expiry' = [a \in Accounts |->
                  IF a \in store THEN StoreExpirySec(a) ELSE expiry[a]]
  /\ UNCHANGED <<now, store, cooldowns, sessionBindings, currentIndex, call,
                 lastKeyed, nsel, plain, marks, req, client, fb, sse, syn,
                 obs, fn, mon>>

EnvStorePut == \E a \in Accounts : StorePut(a)

EnvStoreDelete == \E a \in Accounts : StoreDelete(a)

ReloadNext == Tick \/ EnvStorePut \/ EnvStoreDelete \/ LoadAccounts

SpecReload == Init /\ [][ReloadNext]_vars

(***************************************************************************)
(* CloudMonitorService: the clock, start, stop, the interval timer, focus  *)
(* events, direct polls and the end of a poll.                             *)
(***************************************************************************)
MonUnchanged ==
  UNCHANGED <<now, store, tokens, expiry, cooldowns, sessionBindings,
              currentIndex, call, lastKeyed, nsel, plain, marks, req,
              client, fb, sse, syn, obs, fn>>

MonTick ==
  /\ mon.ticks < MaxMonitorTicks
  /\ ~TimerDue(mon)
  /\ \E step \in {MonitorTickMs, POLL_INTERVAL} :
       mon' = [mon EXCEPT !.clock = mon.clock + step,
                          !.ticks = mon.ticks + 1,
                          !.last = Called(mon, "tick", FALSE, FALSE, FALSE)]
  /\ MonUnchanged

MonStart ==
  /\ RunningPolls(mon) < MaxPolls
  /\ mon' =
       IF mon.intervalId
       THEN [mon EXCEPT !.last = Called(mon, "start", FALSE, FALSE, FALSE)]
       ELSE LET focused == [mon EXCEPT !.lastFocusTime = mon.clock,
                                       !.startedAt = mon.clock]
                polled == PollEnters(focused, "start")
            IN [StartInterval(polled) EXCEPT
                  !.last = Called(mon, "start", ~PollGuard(mon, "start"),
                                  TRUE, FALSE)]
  /\ MonUnchanged

MonStop ==
  /\ mon' = [mon EXCEPT !.intervalId = FALSE,
                        !.timers = IF mon.intervalId THEN mon.timers - 1
                                   ELSE mon.timers,
                        !.last = Called(mon, "stop", FALSE, FALSE, FALSE)]
  /\ MonUnchanged

MonHandleAppFocus ==
  /\ RunningPolls(mon) < MaxPolls
  /\ mon' =
       IF mon.isPolling \/ Debounced(mon)
       THEN [mon EXCEPT !.last = Called(mon, "focus", FALSE, FALSE, FALSE)]
       ELSE LET focused == [mon EXCEPT !.lastFocusTime = mon.clock,
                                       !.focusedAt = mon.clock,
                                       !.focusArmed = mon.intervalId]
            IN [PollEnters(focused, "focus") EXCEPT
                  !.last = Called(mon, "focus", ~PollGuard(mon, "focus"),
                                  TRUE, TRUE)]
  /\ MonUnchanged

MonPoll ==
  /\ RunningPolls(mon) < MaxPolls
  /\ mon' = [PollEnters(mon, "direct") EXCEPT
               !.last = Called(mon, "poll", ~PollGuard(mon, "direct"),
                               TRUE, FALSE)]
  /\ MonUnchanged

MonTimerFires ==
  /\ TimerDue(mon)
  /\ RunningPolls(mon) < MaxPolls
  /\ mon' = [PollEnters(mon, "timer") EXCEPT
               !.armedAt = mon.armedAt + POLL_INTERVAL,
               !.last = Called(mon, "timer", ~PollGuard(mon, "timer"),
                               TRUE, FALSE)]
  /\ MonUnchanged

(* the poll's finally block; a focus poll continues with resetInterval() *)
MonPollFinishes ==
  /\ \E caller \in PollCallers, ok \in BOOLEAN :
       /\ mon.polls[caller] > 0
       /\ LET done == [mon EXCEPT !.isPolling = FALSE,
                                  !.polls[caller] = mon.polls[caller] - 1]
              after == IF caller = "focus" THEN ResetInterval(done) ELSE done
          IN mon' = [after EXCEPT
                       !.last = [Called(mon, "finished", FALSE, FALSE, FALSE)
                                   EXCEPT !.caller = caller,
                                          !.failed = ~ok]]
  /\ MonUnchanged

MonitorNext ==
  \/ MonTick
  \/ MonStart
  \/ MonStop
  \/ MonHandleAppFocus
  \/ MonPoll
  \/ MonTimerFires
  \/ MonPollFinishes

SpecMonitor == Init /\ [][MonitorNext]_vars

(***************************************************************************)
(* The handlers' catch blocks mark the account of the failed attempt, any  *)
(* number of times while the clock runs: several requests use the same     *)
(* account, and an account in cooldown is still selected when every        *)
(* candidate is in cooldown.                                               *)
(***************************************************************************)
HandlerMarksForbidden ==
  \E a \in Range(tokens) :
    /\ Quiet
    /\ cooldowns' = MarkInCooldown(cooldowns, tokens, a, now,
                                   forbiddenCooldownMs)
    /\ plain' = FALSE
    /\ nsel' = 0
    /\ UNCHANGED <<now, store, tokens, expiry, sessionBindings, currentIndex,
                   call, lastKeyed, marks, req, client, fb, sse, syn, obs,
                   fn, mon>>

HandlerMarksRateLimited ==
  \E a \in Range(tokens) :
    /\ Quiet
    /\ cooldowns' = MarkInCooldown(cooldowns, tokens, a, now,
                                   rateLimitCooldownMs)
    /\ plain' = FALSE
    /\ nsel' = 0
    /\ UNCHANGED <<now, store, tokens, expiry, sessionBindings, currentIndex,
                   call, lastKeyed, marks, req, client, fb, sse, syn, obs,
                   fn, mon>>

MarksNext ==
  \/ Tick
  \/ HandlerMarksForbidden
  \/ HandlerMarksRateLimited

SpecMarks == Init /\ [][MarksNext]_vars

(***************************************************************************)
(* C1.  In every handler's retry loop, an attempt that ends with an error  *)
(* the classification marks as not retryable is the last one: the request  *)
(* is over, with that error thrown to the caller.                          *)
(***************************************************************************)
C1_NonRetryableErrorStops ==
  req.i > 0 /\ ~ClassifyUpstreamError(req.lastError).retry =>
    /\ req.pc = "done"
    /\ req.result = "error"
    /\ req.thrown = req.lastError

(***************************************************************************)
(* C2.  One request selects a token at most 3 times, in every handler: it  *)
(* succeeds when the third attempt succeeds after two retryable failures,  *)
(* and after three failed attempts it ends with the error of the third and *)
(* selects no fourth token.                                                *)
(***************************************************************************)
C2_AtMostThreeAttempts ==
  /\ Len(req.sel) <= 3
  /\ req.i <= Len(req.sel)
  /\ req.pc = "done" /\ Len(req.sel) = 3 /\ req.i = 2 => req.result = "ok"
  /\ req.i = 3 =>
       /\ req.pc = "done"
       /\ req.result = "error"
       /\ req.thrown = req.lastError
       /\ call["req"].st = "idle"

C2_Witness ==
  /\ req.pc = "done"
  /\ req.result = "ok"
  /\ Len(req.sel) = 3
  /\ req.i = 2
  /\ ClassifyUpstreamError(req.lastError).retry

(***************************************************************************)
(* C3.  The account of a failed attempt is marked by the classification of *)
(* the attempt's error: a forbidden marker sets the forbidden cooldown,    *)
(* also next to a rate-limit marker; a rate-limit marker without a         *)
(* forbidden one sets the rate-limit cooldown; a transient-only error sets *)
(* no cooldown and is retried.                                             *)
(***************************************************************************)
C3_MarkFollowsClassification ==
  [][req.pc \in Stages /\ req'.i = req.i + 1 =>
       LET e == req'.lastError
           forbidden == \E m \in {"401", "unauthorized", "invalid_grant", "403",
                                  "permission_denied", "forbidden"} :
                           Includes(e, m)
           rateLimited == \E m \in {"429", "resource_exhausted", "quota",
                                    "rate_limit"} : Includes(e, m)
           transient == \E m \in {"408", "500", "502", "503", "504", "timeout",
                                  "socket hang up", "empty response stream",
                                  "connection reset"} : Includes(e, m)
       IN
       /\ forbidden =>
            cooldowns'[req.token] = now + 30 * 60 * 1000
       /\ ~forbidden /\ rateLimited =>
            cooldowns'[req.token] = now + 5 * 60 * 1000
       /\ ~forbidden /\ ~rateLimited /\ transient =>
            /\ cooldowns' = cooldowns
            /\ req.i + 1 < 3 => req'.pc = "select"
    ]_vars

C3_Witness ==
  /\ req.i = 1
  /\ req.pc = "select"
  /\ req.lastError = M401Quota
  /\ cooldowns[req.token] = now + forbiddenCooldownMs

(***************************************************************************)
(* C4.  With pool {A,B}, when the calls made with A's token fail with      *)
(* `429 quota exceeded` and the calls made with B's token succeed, a       *)
(* request of the OpenAI, the Anthropic or the Gemini handler whose first  *)
(* attempt selects A ends with B's response and the attempted set {A,B},   *)
(* and the mark sets A's cooldown deadline to the time of the mark plus 5  *)
(* minutes.                                                                *)
(***************************************************************************)
C4_FailoverToSecondAccount ==
  /\ [](/\ req.handler \in {"openai", "anthropic", "gemini"}
        /\ Range(tokens) = {"A", "B"}
        /\ Len(req.sel) > 0
        /\ req.sel[1] = "A"
        /\ req.outs["A"] \in {None, M429Quota}
        /\ req.outs["B"] \in {None, "ok"}
        => /\ req.i <= 1
           /\ Len(req.sel) = 2 => req.sel[2] = "B"
           /\ req.pc = "done" =>
                /\ req.result = "ok"
                /\ req.token = "B"
                /\ req.attempted = {"A", "B"}
                /\ cooldowns["A"] > 0)
  /\ [][/\ req.pc \in Stages
        /\ req.token = "A"
        /\ req'.i = req.i + 1
        /\ req'.lastError = M429Quota
        => cooldowns'["A"] = now + 5 * 60 * 1000]_vars

C4_Witness ==
  /\ req.handler = "anthropic"
  /\ Range(tokens) = {"A", "B"}
  /\ req.sel = <<"A", "B">>
  /\ req.outs["A"] = M429Quota
  /\ req.outs["B"] = "ok"
  /\ req.pc = "done"
  /\ req.result = "ok"
  /\ cooldowns["A"] = rateLimitCooldownMs
  /\ now > 0

(***************************************************************************)
(* C5.  Within one request, no account is selected for two attempts as     *)
(* long as the pool holds an account the request has not attempted, also   *)
(* when the request's session key is bound to an account that failed in    *)
(* this request.                                                           *)
(***************************************************************************)
C5_NoRepeatWhileFreshAccounts ==
  \A j \in DOMAIN req.sel :
    (\E i \in 1..(j - 1) : req.sel[i] = req.sel[j]) =>
      Range(tokens) \subseteq {req.sel[i] : i \in 1..(j - 1)}

C5_Witness ==
  /\ req.sk # NoKey
  /\ Len(req.sel) = 3
  /\ Cardinality(Range(req.sel)) = 3
  /\ req.sk \in DOMAIN sessionBindings
  /\ sessionBindings[req.sk].accountId = req.sel[3]

(***************************************************************************)
(* C6.  When the exclusions leave at least one account of the pool, the    *)
(* account getNextToken returns is not excluded, and it is in cooldown     *)
(* only if every account that is not excluded is in cooldown.              *)
(***************************************************************************)
C6_ExclusionsAndCooldownsRespected ==
  \A c \in Callers :
    call[c].st = "returned" /\ call[c].ret # None =>
      LET seen == call[c].seen
          free == Range(seen.pool) \ seen.excl
      IN free # {} =>
           /\ call[c].ret \notin seen.excl
           /\ call[c].ret \in seen.cooled => free \subseteq seen.cooled

C6_Witness ==
  \E c \in Callers :
    /\ call[c].st = "returned"
    /\ call[c].seen.excl \cap Range(call[c].seen.pool) # {}
    /\ (Range(call[c].seen.pool) \ call[c].seen.excl) \cap call[c].seen.cooled # {}
    /\ call[c].ret \in Range(call[c].seen.pool) \ call[c].seen.cooled

(***************************************************************************)
(* C7.  When the exclusions cover every account of the pool, getNextToken  *)
(* falls back to the whole pool and still applies the cooldown filter: the *)
(* account it returns is in cooldown only if every account of the pool is. *)
(***************************************************************************)
C7_CooldownFilterOnFullExclusion ==
  \A c \in Callers :
    call[c].st = "returned" /\ call[c].ret # None =>
      LET seen == call[c].seen IN
      Range(seen.pool) \subseteq seen.excl =>
        (call[c].ret \in seen.cooled => Range(seen.pool) \subseteq seen.cooled)

(***************************************************************************)
(* C8.  getNextToken returns no account only when the pool is still empty  *)
(* after the reload; on a non-empty pool it returns an account whatever    *)
(* the cooldowns, the exclusions and the session key are.                  *)
(***************************************************************************)
C8_NullOnlyOnEmptyPool ==
  \A c \in Callers :
    call[c].st = "returned" =>
      (call[c].ret = None <=> Len(call[c].seen.pool) = 0)

C8_Witness ==
  \E c \in Callers :
    /\ call[c].st = "returned"
    /\ call[c].ret # None
    /\ call[c].seen.sk # NoKey
    /\ Range(call[c].seen.pool) \subseteq call[c].seen.excl
    /\ Range(call[c].seen.pool) \subseteq call[c].seen.cooled

(***************************************************************************)
(* C9.  With no session key, no exclusions, no cooldowns and a fixed pool  *)
(* of N accounts, the k-th sequential getNextToken returns the account at  *)
(* position (k-1) mod N of the pool order, and currentIndex never          *)
(* decreases.                                                              *)
(***************************************************************************)
C9_RoundRobinOrder ==
  /\ [](\A c \in Callers :
          call[c].st = "returned" /\ call[c].seen.plain =>
            call[c].ret =
              call[c].seen.pool[((call[c].seen.k - 1) % Len(call[c].seen.pool)) + 1])
  /\ [][currentIndex' >= currentIndex]_vars

C9_Witness ==
  \E c \in Callers :
    /\ call[c].st = "returned"
    /\ call[c].seen.plain
    /\ call[c].seen.k = 3
    /\ Len(call[c].seen.pool) = 2
    /\ call[c].ret = call[c].seen.pool[1]

(***************************************************************************)
(* C10.  Two sequential getNextToken calls with the same session key made  *)
(* less than 10 minutes apart return the same account, whatever was        *)
(* selected without the key in between, provided the bound account is      *)
(* still a candidate at the second call: not excluded, and not filtered by *)
(* cooldown.                                                               *)
(***************************************************************************)
C10_StickyWithinTtl ==
  \A c \in Callers :
    call[c].st = "returned" =>
      LET seen == call[c].seen
          free == Range(seen.pool) \ seen.excl
      IN
      /\ seen.sk # NoKey
      /\ seen.prev.acct # None
      /\ seen.at - seen.prev.at < 10 * 60 * 1000
      /\ seen.alone
      /\ seen.prev.acct \in free
      /\ seen.prev.acct \notin seen.cooled \/ free \subseteq seen.cooled
      => call[c].ret = seen.prev.acct

C10_Witness ==
  \E c \in Callers :
    /\ call[c].st = "returned"
    /\ call[c].seen.sk # NoKey
    /\ call[c].seen.prev.acct = call[c].ret
    /\ call[c].seen.at > call[c].seen.prev.at
    /\ call[c].seen.idx > 1
    /\ call[c].seen.pool[(call[c].seen.idx % Len(call[c].seen.pool)) + 1]
         # call[c].ret

(***************************************************************************)
(* C11.  A session binding is used only while its expiresAt > now: every   *)
(* finalized selection with a session key sets expiresAt to that moment    *)
(* plus 10 minutes, a selection made when the key's binding has expired    *)
(* does not use it, and every getNextToken call removes all bindings with  *)
(* expiresAt <= now.                                                       *)
(***************************************************************************)
C11_BindingUsedOnlyWhileValid ==
  /\ [](\A c \in Callers :
          call[c].st \in {"refresh", "returned"} =>
            /\ call[c].seen.stick =>
                 call[c].seen.sk # NoKey /\ call[c].seen.bound > call[c].seen.at
            /\ call[c].seen.bound # 0 /\ call[c].seen.bound <= call[c].seen.at =>
                 ~call[c].seen.stick)
  /\ [][\A c \in Callers :
          /\ call[c].st # "returned" /\ call'[c].st = "returned"
             /\ call'[c].ret # None /\ call'[c].seen.sk # NoKey =>
               sessionBindings'[call'[c].seen.sk] =
                 [accountId |-> call'[c].ret, expiresAt |-> now + 10 * 60 * 1000]
          /\ call[c].st = "idle" /\ call'[c].st # "idle" =>
               \A k \in DOMAIN sessionBindings' :
                 sessionBindings'[k].expiresAt > now]_vars

C11_Witness ==
  \E c \in Callers :
    /\ call[c].st = "returned"
    /\ call[c].ret # None
    /\ call[c].seen.bound # 0
    /\ call[c].seen.bound <= call[c].seen.at
    /\ ~call[c].seen.stick
    /\ sessionBindings[call[c].seen.sk].expiresAt = now + stickySessionTtlMs

(***************************************************************************)
(* C12.  An account that is bound to the session key and is in cooldown is *)
(* not selected by stickiness while some candidate account (an account the *)
(* exclusions leave, or any account of the pool when they leave none) is   *)
(* out of cooldown.                                                        *)
(***************************************************************************)
C12_CooledAccountNotSticky ==
  \A c \in Callers :
    call[c].st \in {"refresh", "returned"} /\ call[c].seen.stick =>
      LET seen == call[c].seen
          free == Range(seen.pool) \ seen.excl
          candidates == IF free # {} THEN free ELSE Range(seen.pool)
      IN call[c].ret \in seen.cooled => candidates \subseteq seen.cooled

(***************************************************************************)
(* C13.  markAsRateLimited sets the account's cooldown deadline to now + 5 *)
(* minutes and markAsForbidden to now + 30 minutes, whether the account is *)
(* named by id or by email; the cooldown filter drops the account exactly  *)
(* while deadline > now, and the account is a normal candidate again once  *)
(* deadline <= now.                                                        *)
(***************************************************************************)
C13_CooldownDeadlineAndFilter ==
  /\ [](\A c \in Callers :
          call[c].st \in {"refresh", "returned"} =>
            LET seen == call[c].seen
                open == (Range(seen.pool) \ seen.excl) \ seen.cooled
            IN open # {} => seen.cands = open)
  /\ [][\A a \in Range(tokens) : \A key \in {a, EmailOf(a)} :
          /\ MarkAsRateLimited(key) => cooldowns'[a] = now + 5 * 60 * 1000
          /\ MarkAsForbidden(key) => cooldowns'[a] = now + 30 * 60 * 1000]_vars

C13_Witness ==
  \E c \in Callers :
    /\ call[c].st = "returned"
    /\ call[c].ret # None
    /\ cooldowns[call[c].ret] = rateLimitCooldownMs
    /\ cooldowns[call[c].ret] <= call[c].seen.at
    /\ call[c].seen.cooled = {}
    /\ Cardinality(call[c].seen.cands) > 1

(***************************************************************************)
(* C14.  When several getNextToken calls run concurrently, the candidate   *)
(* computation and the currentIndex advance of one call are not            *)
(* interleaved with those of another call: a round-robin selection reads   *)
(* currentIndex and advances it in one step in which no other call moves,  *)
(* and no two round-robin selections read the same currentIndex value.     *)
(***************************************************************************)
C14_SelectionIsAtomic ==
  /\ [](\A c, d \in Callers :
          /\ c # d
          /\ call[c].st \in {"refresh", "returned"}
          /\ call[d].st \in {"refresh", "returned"}
          /\ call[c].ret # None /\ ~call[c].seen.stick
          /\ call[d].ret # None /\ ~call[d].seen.stick
          => call[c].seen.idx # call[d].seen.idx)
  /\ [][\A c \in Callers :
          /\ call[c].st \in {"idle", "loading"}
          /\ call'[c].st \in {"refresh", "returned"}
          /\ call'[c].ret # None
          /\ ~call'[c].seen.stick
          => /\ call'[c].seen.idx = currentIndex
             /\ currentIndex' = currentIndex + 1
             /\ call'[c].ret =
                  LET cands == SelectSeq(call'[c].seen.pool,
                                 LAMBDA a : a \in call'[c].seen.cands)
                  IN cands[(currentIndex % Len(cands)) + 1]
             /\ \A d \in Callers \ {c} : call'[d] = call[d]]_vars

C14_Witness ==
  /\ call["c1"].st = "refresh"
  /\ call["c2"].st = "returned"
  /\ ~call["c1"].seen.stick
  /\ ~call["c2"].seen.stick
  /\ call["c2"].ret # None
  /\ call["c2"].seen.idx = call["c1"].seen.idx + 1
  /\ store # Accounts

(***************************************************************************)
(* C15.  getNextToken calls the refresher for the selected account if and  *)
(* only if expiry_timestamp - now < 300 seconds; on success the in-memory  *)
(* token gets the new expiry; on failure the account is still returned,    *)
(* with the stale token, and the session binding is still set.             *)
(***************************************************************************)
C15_RefreshIffWithinWindow ==
  [][\A c \in Callers :
       /\ /\ call[c].st \in {"idle", "loading"}
          /\ call'[c].st \in {"refresh", "returned"}
          /\ call'[c].ret # None
          => (call'[c].st = "refresh"
                <=> expiry'[call'[c].ret] - (now \div 1000) < 300)
       /\ call[c].st = "refresh" /\ call'[c].st = "returned" =>
            /\ call'[c].ret = call[c].ret
            /\ expiry'[call[c].ret] \in
                 {expiry[call[c].ret], call[c].nowSeconds + ExpiresInSec}
            /\ call[c].seen.sk # NoKey =>
                 sessionBindings'[call[c].seen.sk].accountId = call[c].ret
    ]_vars

(***************************************************************************)
(* C16.  For every account whose project_id matches ^cloud-code-\d+$       *)
(* (case-insensitive), every upstream request body built for an attempt on *)
(* that account, in every handler and in every inline retry, has           *)
(* project = "".                                                           *)
(***************************************************************************)
C16_SyntheticProjectElided ==
  req.pc \in Stages /\ StoreProjectId(req.token) \in {"cloud-code-123", "Cloud-Code-7"}
    => req.project = ""

C16_Witness ==
  /\ req.pc = "quota"
  /\ req.token = "B"
  /\ req.project = ""
  /\ Len(req.sel) = 3
  /\ req.sel[2] = "C"

(***************************************************************************)
(* C17.  One upstream client call tries the base URLs in list order,       *)
(* returns the first successful response without contacting a later        *)
(* endpoint, contacts endpoint k+1 only after endpoint k failed with a     *)
(* transient error (no response, or status 408, 429 or >= 500), fails at   *)
(* once on 401/403, and when all endpoints fail propagates the error of    *)
(* the last endpoint tried, with the upstream error.message when the       *)
(* response has one.                                                       *)
(***************************************************************************)
C17_EndpointFailover ==
  LET tried == client.tried
      transient(o) == /\ o.kind = "axios"
                      /\ o.status = 0 \/ o.status \in {408, 429} \/ o.status >= 500
  IN
  /\ Len(tried) <= client.n
  /\ client.pc = "trying" => client.index = Len(tried) /\ Len(tried) < client.n
  /\ \A k \in 1..(Len(tried) - 1) : transient(tried[k])
  /\ client.pc = "done" =>
       LET last == tried[Len(tried)] IN
       /\ last.kind = "ok" => client.result = "ok"
       /\ last.kind # "ok" =>
            /\ client.result = "error"
            /\ transient(last) => Len(tried) = client.n
            /\ last.upstream \notin {None, " "} => client.thrown = last.upstream
            /\ last.upstream = None => client.thrown = last.message

C17_Witness ==
  /\ client.pc = "done"
  /\ client.n = 3
  /\ Len(client.tried) = 3
  /\ client.tried[1].status = 0
  /\ client.tried[2].status = 503
  /\ client.tried[3].status = 429
  /\ client.thrown = "upstream error 429"

(***************************************************************************)
(* C18.  When an attempt's upstream calls end with a project-context       *)
(* error, the handler retries once inline on the same account with project *)
(* "" and without selecting a new token; when the inline retry succeeds    *)
(* the response is returned and no account is marked; the loop advances to *)
(* the next attempt only after the inline retry has failed too.            *)
(***************************************************************************)
C18_ProjectContextInlineRetry ==
  [][LET openAiStreamCall == /\ req.handler = "openai"
                             /\ req.pc = "primary"
                             /\ req.sub = "stream"
     IN
     /\ /\ req.pc \in {"primary", "unaryfb"}
        /\ ~openAiStreamCall
        /\ req' # req
        /\ req'.out = MProject
        => /\ req'.pc = "project"
           /\ req'.project = ""
           /\ req'.token = req.token
           /\ req'.sel = req.sel
           /\ req'.i = req.i
           /\ call' = call
           /\ cooldowns' = cooldowns
     /\ req'.pc = "project" /\ req.pc # "project" =>
          req.pc \in {"primary", "unaryfb"}
     /\ req.pc = "project" /\ req'.out = "ok" =>
          /\ req'.pc = "done" => req'.result = "ok"
          /\ req'.pc # "done" => req'.pc = "project"
          /\ req'.token = req.token
          /\ cooldowns' = cooldowns
     /\ req'.i = req.i + 1 /\ req'.lastError = MProject =>
          req.pc \in {"project", "quota"}
    ]_vars

C18_Witness ==
  /\ req.pc = "done"
  /\ req.result = "ok"
  /\ req.token = "C"
  /\ req.outs["C"] = "mixed"
  /\ req.project = ""
  /\ cooldowns["C"] = 0
  /\ req.i = Len(req.sel) - 1

(***************************************************************************)
(* C19.  In handleAnthropicMessages, and in no other handler, an attempt   *)
(* that ends with a quota-exhaustion error is retried once inline on the   *)
(* same account with model gemini-2.5-flash, without selecting a new       *)
(* token; when that retry is unary and succeeds, the returned response     *)
(* carries the model the client requested and no account is marked.        *)
(***************************************************************************)
C19_QuotaDowngradeAnthropicOnly ==
  [][LET quota(e) == e \in {M429Quota, M401Quota} IN
     /\ /\ req.handler = "anthropic"
        /\ req.pc \in {"primary", "project"}
        /\ req' # req
        /\ quota(req'.out)
        => /\ req'.pc = "quota"
           /\ req'.model = FallbackModel
           /\ req'.token = req.token
           /\ req'.sel = req.sel
           /\ req'.i = req.i
           /\ call' = call
           /\ cooldowns' = cooldowns
     /\ req'.pc = "quota" /\ req.pc # "quota" =>
          /\ req.handler = "anthropic"
          /\ req.pc \in {"primary", "project"}
          /\ quota(req'.out)
     /\ req.pc = "quota" /\ req'.pc = "quota" =>
          req'.i = req.i /\ req'.token = req.token
     /\ req.pc = "quota" /\ ~req.stream /\ req'.pc = "done" /\ req'.out = "ok" =>
          /\ req'.result = "ok"
          /\ req'.respModel = ClientModel
          /\ req'.token = req.token
          /\ cooldowns' = cooldowns
    ]_vars

C19_Witness ==
  /\ req.pc = "done"
  /\ req.result = "ok"
  /\ req.handler = "anthropic"
  /\ ~req.stream
  /\ req.model = FallbackModel
  /\ req.respModel = ClientModel
  /\ Len(req.sel) = 1
  /\ \A a \in Accounts : cooldowns[a] = 0

(***************************************************************************)
(* C20.  When the unary call succeeds with no usable candidate (no entry   *)
(* in candidates[0].content.parts), exactly one streaming call is issued,  *)
(* with the same body and token, and the response returned has as          *)
(* candidates[0].content.parts the parts of all stream frames in upstream  *)
(* order, with the last finishReason and the last usageMetadata seen; when *)
(* the unary response has a usable candidate no streaming call is issued.  *)
(* A frame is a data line of the stream that parses and whose newline has  *)
(* arrived; its parts are the objects of its candidates[0].content.parts.  *)
(***************************************************************************)
C20_StreamFallbackOnEmptyUnary ==
  LET frames == SelectSeq(fb.sent, LAMBDA l : l.kind = "data")
      partsOf(i) == SelectSeq(frames[i].frame.parts.items,
                              LAMBDA part : part.isRecord)
      allParts[i \in 0..Len(frames)] ==
        IF i = 0 THEN <<>> ELSE allParts[i - 1] \o partsOf(i)
      lastOf(field(_)) ==
        LET seen == {i \in 1..Len(frames) : field(frames[i].frame) # None} IN
        IF seen = {} THEN None
        ELSE field(frames[CHOOSE i \in seen : \A j \in seen : j <= i].frame)
      finishOf(f) == f.finishReason
      usageOf(f) == f.usageMetadata
      usable == /\ fb.direct.isArray
                /\ Len(fb.direct.candidates) > 0
                /\ fb.direct.candidates[1].parts.isArray
                /\ fb.direct.candidates[1].parts.items # <<>>
      answered == fb.pc \in {"stream", "collect"}
                    \/ (fb.pc = "done" /\ (fb.calls # <<>> \/ fb.thrown = None))
  IN
  /\ answered /\ ~usable => fb.calls = <<<<fb.body, fb.token>>>>
  /\ answered /\ usable =>
       fb.calls = <<>> /\ fb.pc = "done" /\ fb.result = fb.direct
  /\ fb.pc \in {"idle", "direct"} => fb.calls = <<>>
  /\ fb.pc = "done" /\ fb.calls # <<>> /\ fb.thrown = None =>
       /\ Len(fb.result.candidates) = 1
       /\ fb.result.candidates[1].parts.items = allParts[Len(frames)]
       /\ fb.result.candidates[1].finishReason = lastOf(finishOf)
       /\ fb.result.usageMetadata = lastOf(usageOf)

C20_Witness ==
  /\ fb.pc = "done"
  /\ fb.thrown = None
  /\ fb.direct = Response(TRUE, <<>>, None)
  /\ fb.calls = <<<<"body2", "tokenB">>>>
  /\ Len(fb.result.candidates[1].parts.items) = 3
  /\ fb.result.candidates[1].parts.items[1] = Part("b")
  /\ fb.result.candidates[1].parts.items[3] = Part("a")
  /\ fb.result.candidates[1].finishReason = "MAX_TOKENS"
  /\ fb.result.usageMetadata = "usage7"

(***************************************************************************)
(* C21.  generateInternalWithStreamFallback never returns a response       *)
(* without a usable candidate: a fallback stream that ends without         *)
(* yielding any part raises 'Empty response stream'.                       *)
(***************************************************************************)
C21_NeverReturnsUnusableResponse ==
  LET usable(response) ==
        /\ response.isArray
        /\ Len(response.candidates) > 0
        /\ response.candidates[1].parts.isArray
        /\ response.candidates[1].parts.items # <<>>
  IN
  fb.pc = "done" =>
    /\ fb.thrown = None => usable(fb.result)
    /\ fb.calls # <<>> /\ fb.mergedParts = <<>> /\ fb.thrown \notin UpstreamErrors
         => fb.thrown = MEmptyStream

C23_ExactlyOneDoneLast ==
  LET dones == {i \in 1..Len(sse.out) : sse.out[i] = DoneItem}
      frames == SelectSeq(sse.sent, LAMBDA l : l.kind = "data")
      silent(part) == /\ part.text = ""
                      /\ part.functionCall = None
                      /\ part.inlineData = None
      nothingEmitted ==
        \A i \in 1..Len(frames) :
          /\ frames[i].frame.finishReason = None
          /\ \A j \in 1..Len(frames[i].frame.parts) :
               silent(frames[i].frame.parts[j])
  IN
  /\ dones \subseteq {Len(sse.out)}
  /\ sse.term # <<>> /\ sse.upstream # "error" =>
       dones = {Len(sse.out)} /\ sse.term = <<"complete">>
  /\ sse.upstream = "end" =>
       /\ dones = {Len(sse.out)}
       /\ sse.term = <<"complete">>
       /\ nothingEmitted =>
            sse.out = <<Chunk(sse.id, sse.created, "content", "", None),
                        DoneItem>>
  /\ sse.upstream = "open" /\ sse.term = <<>> => dones = {}

C23_Witness ==
  /\ sse.upstream = "end"
  /\ Len(sse.sent) = 3
  /\ sse.sent[1] = StreamLine("data", StreamFrame(<<TextPartB>>, "STOP"))
  /\ sse.sent[2] = StreamLine("data", StreamFrame(<<ThoughtPart, TextPartA>>,
                                                  None))
  /\ sse.sent[3] = StreamLine("data", StreamFrame(<<>>, "MAX_TOKENS"))
  /\ Len(sse.out) = 3
  /\ sse.out[3] = DoneItem

C25_OneTerminalNotification ==
  LET sseErrors == {i \in 1..Len(obs.out) : obs.out[i].kind = "sse_error"} IN
  /\ Len(obs.term) <= 1
  /\ obs.upstream = "open" => obs.term = <<>> /\ sseErrors = {}
  /\ obs.upstream = "end" =>
       /\ obs.events = 0 => obs.term = <<MEmptyStream>>
       /\ obs.events > 0 => obs.term = <<"complete">>
       /\ sseErrors = {}
  /\ obs.upstream = "error" =>
       /\ obs.term = <<obs.error>>
       /\ obs.kind = "anthropic" =>
            /\ sseErrors = {Len(obs.out)}
            /\ obs.out[Len(obs.out)].message = obs.error
       /\ obs.kind = "passthrough" => sseErrors = {}

C25_Witness ==
  /\ obs.kind = "anthropic"
  /\ obs.upstream = "end"
  /\ obs.sent = <<"malformed", "frame">>
  /\ obs.term = <<"complete">>
  /\ obs.out[Len(obs.out)].kind = "finish"

(***************************************************************************)
(* C26.  When the client disconnects during a streaming response the       *)
(* frontend unsubscribes and the upstream reader is closed: after the      *)
(* disconnect the upstream stream is no longer read and its data, end and  *)
(* error events are no longer handled.                                     *)
(***************************************************************************)
C26_DisconnectClosesUpstream ==
  [][/\ sse'.unsubscribed => sse'.closed
     /\ sse.unsubscribed => sse' = sse]_vars

(***************************************************************************)
(* C27.  Every frontend (OpenAI, Anthropic, Gemini) answers an error of    *)
(* the orchestrator with the status of the message mapping: '429 quota     *)
(* exceeded' and 'No available accounts' give 429, a message with 401 or   *)
(* unauthorized (and nothing an earlier rule looks for) gives 401, and     *)
(* only a message that matches no rule gives 500.                          *)
(***************************************************************************)
C27_FrontendStatusFollowsMapping ==
  fn.op = "catch" =>
    /\ fn.message \in {{"429", "quota"}, {"no available accounts"}} =>
         fn.status = 429
    /\ /\ HasAny(fn.message, {"401", "unauthorized"})
       /\ ~HasAny(fn.message, {"all accounts failed or unhealthy",
                               "all accounts exhausted",
                               "no available accounts",
                               "network socket disconnected",
                               "secure tls connection was established",
                               "socket hang up", "econnreset", "eai_again"})
       => fn.status = 401
    /\ fn.status = 500 => fn.message = {}

(***************************************************************************)
(* C28.  With no API key configured every request is allowed; with a key   *)
(* configured a request is allowed exactly when at least one of            *)
(* Authorization: Bearer <key>, x-api-key and x-goog-api-key carries the   *)
(* configured key, whatever the other two headers hold.                    *)
(***************************************************************************)
C28_AllowedIffSomeHeaderCarriesKey ==
  fn.op = "guard" =>
    LET key == fn.apiKey
        authorization == ReadHeaderValue(fn.headers.authorization)
        carries(value) == ~key.padded /\ value = key.words
    IN IF ~HasConfiguredApiKey(key) THEN fn.allowed
       ELSE fn.allowed <=>
              \/ /\ IsBearer(authorization)
                 /\ carries(<<authorization[2]>>)
              \/ carries(ReadHeaderValue(fn.headers.xApiKey))
              \/ carries(ReadHeaderValue(fn.headers.xGoogApiKey))

(***************************************************************************)
(* C29.  The normalized generateContent response keeps in usageMetadata    *)
(* only promptTokenCount, candidatesTokenCount and totalTokenCount, and    *)
(* no response-level metadata (responseId, createTime), whatever the       *)
(* upstream response contains.                                             *)
(***************************************************************************)
C29_OnlyCanonicalUsageKept ==
  fn.op = "normalize" =>
    /\ DOMAIN fn.result.usageMetadata \subseteq CanonicalUsageFields
    /\ DOMAIN fn.sent.usageMetadata \subseteq CanonicalUsageFields
    /\ fn.result.metadata = {}
    /\ fn.sent.metadata = {}

(***************************************************************************)
(* C30.  A model with an exact key in custom_mapping that matches no       *)
(* wildcard key is routed to custom_mapping's target, whatever             *)
(* anthropic_mapping or a family mapping defines; without a custom entry   *)
(* the family mapping wins over the static alias table; a model matching   *)
(* nothing is returned unchanged.                                          *)
(***************************************************************************)
C30_CustomExactThenFamilyThenSystem ==
  fn.op = "route" =>
    LET model == NormalizedModel(fn.model)
        custom == Lookup(fn.custom_mapping, model)
        family == IF IsClaude(model)
                  THEN Lookup(fn.anthropic_mapping, ClaudeFamilyKey(model))
                  ELSE ""
        noWildcard ==
          \A m \in {fn.custom_mapping, fn.anthropic_mapping} :
            \A i \in 1..Len(m) : ~WildcardMatches(m[i][1], model)
    IN noWildcard =>
         /\ custom # "" => fn.route = custom
         /\ custom = "" /\ family # "" => fn.route = family
         /\ /\ custom = "" /\ family = ""
            /\ Lookup(fn.anthropic_mapping, model) = ""
            /\ CLAUDE_TO_GEMINI(model) = ""
            => fn.route = model

(***************************************************************************)
(* C31.  At most one CloudMonitor poll is in progress at any time: poll()  *)
(* or handleAppFocus() invoked while a poll is running returns without     *)
(* reading the account store, and the in-progress flag is set exactly      *)
(* while a poll runs, so it is cleared when the poll finishes, whether it  *)
(* succeeds or fails.                                                      *)
(***************************************************************************)
C31_AtMostOnePoll ==
  /\ RunningPolls(mon) <= 1
  /\ mon.isPolling <=> RunningPolls(mon) = 1
  /\ mon.last.op \in {"poll", "focus"} /\ mon.last.wasPolling
       => ~mon.last.readStore
  /\ mon.last.op = "finished" => ~mon.isPolling

C31_Witness ==
  /\ mon.last.op \in {"poll", "focus"}
  /\ mon.last.wasPolling
  /\ RunningPolls(mon) = 1

(***************************************************************************)
(* C32.  handleAppFocus triggers a poll only when at least 10 seconds have *)
(* passed since the start() that started the monitor and since the last    *)
(* focus that triggered a poll; a focus less than 10 seconds after either  *)
(* triggers no poll and leaves the debounce timestamp unchanged.           *)
(***************************************************************************)
C32_FocusDebounce ==
  [][mon'.last.op = "focus" =>
       LET sinceStart == mon.clock - mon.startedAt
           sinceFocus == mon.clock - mon.focusedAt
       IN /\ mon'.last.triggered =>
               /\ sinceStart >= DEBOUNCE_TIME
               /\ sinceFocus >= DEBOUNCE_TIME
          /\ sinceStart < DEBOUNCE_TIME \/ sinceFocus < DEBOUNCE_TIME =>
               /\ ~mon'.last.triggered
               /\ ~mon'.last.pollCalled
               /\ mon'.lastFocusTime = mon.lastFocusTime]_vars

C32_Witness ==
  /\ mon.last.op = "focus"
  /\ mon.last.triggered
  /\ mon.startedAt > 0
  /\ mon.clock - mon.startedAt = DEBOUNCE_TIME

(***************************************************************************)
(* C33.  CloudMonitor holds at most one interval timer at any time:        *)
(* start() invokes one immediate poll and arms one 5-minute timer, a       *)
(* second start() while armed does nothing, stop() disarms it, and a       *)
(* focus-triggered poll restarts the timer afterwards only if a timer is   *)
(* still armed, so a stop() during the focus poll leaves the monitor       *)
(* stopped.                                                                *)
(***************************************************************************)
C33_AtMostOneTimer ==
  /\ [](mon.timers <= 1 /\ (mon.intervalId <=> mon.timers = 1))
  /\ [][/\ mon'.last.op = "start" /\ ~mon.intervalId =>
             /\ mon'.last.pollCalled
             /\ mon'.intervalId
             /\ mon'.timers = 1
             /\ mon'.armedAt = mon.clock
        /\ mon'.last.op = "start" /\ mon.intervalId =>
             /\ ~mon'.last.pollCalled
             /\ mon' = [mon EXCEPT !.last = mon'.last]
        /\ mon'.last.op = "stop" => ~mon'.intervalId /\ mon'.timers = 0
        /\ mon'.last.op = "finished" /\ mon'.last.caller = "focus" =>
             /\ mon'.intervalId = mon.intervalId
             /\ mon'.timers = mon.timers
             /\ mon.intervalId => mon'.armedAt = mon.clock]_vars

C33_Witness ==
  /\ mon.last.op = "finished"
  /\ mon.last.caller = "focus"
  /\ mon.focusArmed
  /\ ~mon.intervalId
  /\ mon.timers = 0

(***************************************************************************)
(* C34.  A later mark never moves an account's cooldown deadline earlier:  *)
(* while a deadline lies in the future, no step makes it earlier, so a     *)
(* MarkRateLimited before the deadline of a MarkForbidden leaves the       *)
(* deadline at least as late as it was.                                    *)
(***************************************************************************)
C34_MarkNeverShortensCooldown ==
  [][\A k \in MarkKeys :
       cooldowns[k] > now => cooldowns'[k] >= cooldowns[k]]_vars

(***************************************************************************)
(* C35.  Two overlapping getNextToken calls with the same session key,     *)
(* not bound when either call started, and no exclusions return the same   *)
(* account, also while the first is suspended in a token refresh; and a    *)
(* call that has returned an account for a session key leaves the session  *)
(* bound to it.                                                            *)
(***************************************************************************)
C35_OverlappingCallsAgree ==
  \A c, d \in Callers :
    /\ /\ c # d
       /\ call[c].st = "refresh"
       /\ call[d].st \in {"refresh", "returned"}
       /\ call[d].ret # None
       /\ call[c].seen.sk # NoKey
       /\ call[c].seen.sk = call[d].seen.sk
       /\ call[c].seen.bound <= call[c].seen.at
       /\ call[d].seen.bound <= call[d].seen.at
       /\ call[c].seen.excl = {} /\ call[d].seen.excl = {}
       => call[c].ret = call[d].ret
    /\ /\ call[c].st = "returned"
       /\ call[c].ret # None
       /\ call[c].seen.sk # NoKey
       => /\ call[c].seen.sk \in DOMAIN sessionBindings
          /\ sessionBindings[call[c].seen.sk].accountId = call[c].ret

(***************************************************************************)
(* C36.  For one account whose token is within the refresh window,         *)
(* overlapping getNextToken calls that select it invoke the refresher at   *)
(* most once: no two calls wait for a refresh of the same account at the   *)
(* same time.                                                              *)
(***************************************************************************)
C36_OneRefreshInFlightPerAccount ==
  \A c, d \in Callers :
    /\ c # d
    /\ call[c].st = "refresh"
    /\ call[d].st = "refresh"
    => call[c].ret # call[d].ret

(***************************************************************************)
(* C37.  When an upstream call made with an account's token fails with an  *)
(* error classified rate-limited or forbidden and the attempt ends without *)
(* a successful response, the account is in cooldown when the attempt      *)
(* ends, also when the failed call was followed by an inline fallback      *)
(* that failed with another kind of error.  req.out is the outcome of the  *)
(* attempt's previous upstream call, req'.lastError that of its last one.  *)
(***************************************************************************)
C37_FailedAccountIsCooled ==
  [][/\ req.pc \in Stages
     /\ req'.pc \in {"select", "done"}
     /\ req'.result # "ok"
     /\ \E e \in {req.out, req'.lastError} \cap UpstreamErrors :
          \/ ClassifyUpstreamError(e).markAsForbidden
          \/ ClassifyUpstreamError(e).markAsRateLimited
     => cooldowns'[req.token] > now]_vars

(***************************************************************************)
(* C38.  The Anthropic stream mapper passes every part of every upstream   *)
(* frame to the part processor, in frame order and part order: the         *)
(* process calls are the parts of the frames received, one after another.  *)
(***************************************************************************)
RECURSIVE PartsOfFrames(_)
PartsOfFrames(lines) ==
  IF lines = <<>> THEN <<>>
  ELSE (IF Head(lines).kind = "data" /\ Head(lines).frame.parts.isArray
          THEN FilterGeminiParts(Head(lines).frame.parts.items)
        ELSE <<>>) \o PartsOfFrames(Tail(lines))

C38_EveryPartProcessed ==
  fn.op = "mapper" => fn.processed = PartsOfFrames(fn.lines)

(***************************************************************************)
(* C39.  After a reload the pool holds exactly the stored accounts (every  *)
(* stored account of the model has a token): the count is the number of    *)
(* stored accounts and the candidates of a later selection are stored      *)
(* accounts.                                                               *)
(***************************************************************************)
C39_ReloadDropsDeletedAccounts ==
  [][LoadAccounts =>
       /\ Range(tokens') = store'
       /\ GetAccountCount(tokens') = Cardinality(store')
       /\ Range(AllTokens(tokens', {})) \subseteq store']_vars

(***************************************************************************)
(* C40.  Every handler invocation terminates, with a response or an error, *)
(* after at most 3 token selections and a bounded number of upstream       *)
(* client calls, provided every awaited call returns: an upstream call     *)
(* that settles ends the request, ends the attempt, or moves the attempt   *)
(* to a later call of its fixed sequence of stages (per stage the direct   *)
(* or stream call, the stream fallback of an empty answer, its collection).*)
(***************************************************************************)
StageRank(pc) ==
  CASE pc = "primary" -> 0
    [] pc = "unaryfb" -> 1
    [] pc = "project" -> 2
    [] OTHER -> 3

SubRank(sub) ==
  CASE sub = "fbstream" -> 1
    [] sub = "collect" -> 2
    [] OTHER -> 0

UpstreamPosition(r) == StageRank(r.pc) * 3 + SubRank(r.sub)

====
